---- MODULE Spec2Model ----
(***************************************************************************)
(* skaya-sdk: the component-generation pipeline and its Configuration      *)
(* Store (skaya.config.json).                                              *)
(*                                                                         *)
(* Part I models the Configuration Store of src/utils/configLogger.ts and  *)
(* the CLI operations of src/action.ts that drive it (createProject,       *)
(* createFile, updateFile).  Every `await fs.readFile` / `fs.writeFile`    *)
(* is one step of a CLI invocation, so that two invocations can interleave *)
(* between a read and the write that follows it.                           *)
(***************************************************************************)
EXTENDS Integers, Sequences, FiniteSets, TLC

\* ------------------------------------------------------------------ bounds
MaxOps == 2
MaxImports == 1

\* ------------------------------------------------------------- vocabulary
Procs == {1, 2}
Names == {"Button", "Icon", "Card"}
ProjectTypes == {"frontend", "backend"}
Folders == {"app", "frontendSkayaProject"}
Templates == {"skaya-react-ts"}

\* A JavaScript value that may be undefined: <<>> is undefined, <<v>> is v.
None == <<>>
Some(v) == <<v>>
Has(o) == Len(o) > 0
The(o) == o[1]

Range(s) == {s[i] : i \in 1..Len(s)}

\* readdir lists the component folders in name order, and a checkbox prompt
\* returns the chosen ones in the order it listed them.
NameOrder == <<"Button", "Card", "Icon">>
Position(n) == CHOOSE i \in 1..Len(NameOrder) : NameOrder[i] = n

\* The selections of at most n components out of S, each in listing order.
Selections(S, n) ==
  {s \in UNION {[1..k -> S] : k \in 0..n} :
     \A i, j \in 1..Len(s) : i < j => Position(s[i]) < Position(s[j])}

\* --------------------------------------------------------------- documents
DefaultProjectName(projectType) ==
  IF projectType = "frontend" THEN "frontendSkayaProject" ELSE "backendSkayaProject"

EmptyComponents == [n \in Names |-> None]
EmptyConfig == [pt \in ProjectTypes |-> None]

\* The files generateFromTemplate reports for a component: the canonical
\* target names under <folder>/src/components/<Name>/.
CreatedFiles(folder, name) ==
  << <<folder, name, "tsx">>, <<folder, name, "stories.tsx">>,
     <<folder, name, "test.tsx">>, <<folder, name, "css">> >>

\* existingComponentConfig's default when the component is new.
NewComponentConfig(componentType, now) ==
  [source |-> "template", files |-> <<>>, componentType |-> componentType,
   savedAt |-> now, updatedAt |-> None, aiPrompt |-> None,
   imports |-> Some(<<>>), usedBy |-> Some(<<>>)]

\* fs.readFile + JSON.parse as readConfig does it: any failure gives {}.
readConfig(f) == IF f.kind = "json" THEN f.doc ELSE EmptyConfig

JsonFile(config) == [kind |-> "json", doc |-> config]

\* The read at the head of saveProjectConfig: a missing or blank file gives {},
\* any other failure is rethrown.
ProjectConfigReadThrows(f) == f.kind = "malformed"

\* A saveProjectConfig that starts the project's components map afresh.
saveFreshProjectConfig(config, projectType, name, template, now) ==
  [config EXCEPT ![projectType] =
     Some([name |-> name,
           template |-> IF template = "" THEN "custom" ELSE template,
           createdAt |-> now,
           components |-> Some(EmptyComponents)])]

\* saveProjectConfig of bin/utils/configLogger.ts, which writes the project
\* entry anew without its components.
saveProjectConfigAnew(config, projectType, name, template, now) ==
  [config EXCEPT ![projectType] =
     Some([name |-> name,
           template |-> IF template = "" THEN "custom" ELSE template,
           createdAt |-> now,
           components |-> None])]

\* The object saveProjectConfig assigns to config[projectType].
saveProjectConfig(config, projectType, name, template, now) ==
  [config EXCEPT ![projectType] =
     Some([name |-> name,
           template |-> IF template = "" THEN "custom" ELSE template,
           createdAt |-> now,
           components |->
             IF Has(config[projectType]) /\ Has(The(config[projectType]).components)
             THEN The(config[projectType]).components
             ELSE Some(EmptyComponents)])]

\* "Ensure the project type entry exists" and "Ensure the 'components'
\* property exists" of saveProjectComponentConfig.
EnsureProject(config, projectType, now) ==
  LET c1 == IF Has(config[projectType]) THEN config
            ELSE [config EXCEPT ![projectType] =
                    Some([name |-> DefaultProjectName(projectType),
                          template |-> "custom", createdAt |-> now,
                          components |-> Some(EmptyComponents)])]
  IN IF Has(The(c1[projectType]).components) THEN c1
     ELSE [c1 EXCEPT ![projectType] =
             Some([The(c1[projectType]) EXCEPT !.components = Some(EmptyComponents)])]

Components(config, projectType) == The(The(config[projectType]).components)

\* config[projectType]?.components?.[componentName]
getProjectComponentConfig(config, projectType, componentName) ==
  IF Has(config[projectType]) /\ Has(The(config[projectType]).components)
  THEN Components(config, projectType)[componentName]
  ELSE None

WithComponents(config, projectType, comps) ==
  [config EXCEPT ![projectType] =
     Some([The(config[projectType]) EXCEPT !.components = Some(comps)])]

\* componentDetails is a partial object: `keys` are the properties it owns,
\* `e` their values.  The object spread {...existing, ...componentDetails}
\* takes every property componentDetails owns, undefined values included.
MergeComponent(existing, details, componentType, now) ==
  LET pick(f) == IF f \in details.keys THEN details.e[f] ELSE existing[f]
      processedImports == IF "imports" \in details.keys THEN details.e.imports ELSE None
  IN [source |-> pick("source"),
      files |-> pick("files"),
      aiPrompt |-> pick("aiPrompt"),
      usedBy |-> pick("usedBy"),
      componentType |-> componentType,
      imports |-> IF Has(processedImports) THEN processedImports ELSE pick("imports"),
      savedAt |-> existing.savedAt,
      updatedAt |-> Some(now)]

\* The document saveProjectComponentConfig writes, computed from the one it read.
saveProjectComponentConfig(config, projectType, componentType, componentName, details, now) ==
  LET c == EnsureProject(config, projectType, now)
      comps == Components(c, projectType)
      existing == IF Has(comps[componentName]) THEN The(comps[componentName])
                  ELSE NewComponentConfig(componentType, now)
  IN WithComponents(c, projectType,
       [comps EXCEPT ![componentName] =
          Some(MergeComponent(existing, details, componentType, now))])

\* existingComponentConfig.imports as saveProjectComponentConfig sees it.
ExistingImports(config, projectType, componentName) ==
  LET e == getProjectComponentConfig(config, projectType, componentName)
  IN IF Has(e) THEN The(e).imports ELSE Some(<<>>)

OrEmpty(o) == IF Has(o) THEN The(o) ELSE <<>>

\* A filter that keeps every element.
KeepAll(s, x) == s

\* "Remove old references": usedBy.filter(comp => comp !== sourceComponent)
Without(s, x) == SelectSeq(s, LAMBDA y : y # x)

RECURSIVE RemoveOldReferences(_, _, _)
RemoveOldReferences(comps, sourceComponent, oldImports) ==
  IF oldImports = <<>> THEN comps
  ELSE LET d == Head(oldImports)
           next == IF Has(comps[d]) /\ Has(The(comps[d]).usedBy)
                   THEN [comps EXCEPT ![d] =
                           Some([The(comps[d]) EXCEPT
                                   !.usedBy = Some(Without(The(The(comps[d]).usedBy), sourceComponent))])]
                   ELSE comps
       IN RemoveOldReferences(next, sourceComponent, Tail(oldImports))

\* A push without the includes() test.
PushAlways(usedBy, sourceComponent) == Append(usedBy, sourceComponent)

\* usedBy.push(sourceComponent) unless usedBy.includes(sourceComponent)
PushReference(usedBy, sourceComponent) ==
  IF sourceComponent \in Range(usedBy) THEN usedBy ELSE Append(usedBy, sourceComponent)

RECURSIVE AddNewReferences(_, _, _)
AddNewReferences(comps, sourceComponent, newImports) ==
  IF newImports = <<>> THEN comps
  ELSE LET d == Head(newImports)
           next == IF Has(comps[d])
                   THEN [comps EXCEPT ![d] =
                           Some([The(comps[d]) EXCEPT
                                   !.usedBy = Some(PushReference(OrEmpty(The(comps[d]).usedBy),
                                                                 sourceComponent))])]
                   ELSE comps
       IN AddNewReferences(next, sourceComponent, Tail(newImports))

\* updateComponentReferences returns without writing when the project has no
\* components map.
HasComponents(config, projectType) ==
  Has(config[projectType]) /\ Has(The(config[projectType]).components)

\* The document updateComponentReferences writes, computed from the one it read.
updateComponentReferences(config, projectType, sourceComponent, newImports, oldImports) ==
  WithComponents(config, projectType,
    AddNewReferences(
      RemoveOldReferences(Components(config, projectType), sourceComponent, oldImports),
      sourceComponent, newImports))

\* areImportsEqual of action.ts: same length and the same sorted names.
areImportsEqual(importsA, importsB) ==
  /\ Len(importsA) = Len(importsB)
  /\ \A n \in Names :
       Cardinality({i \in 1..Len(importsA) : importsA[i] = n})
         = Cardinality({i \in 1..Len(importsB) : importsB[i] = n})

\* ------------------------------------------------------------------- state
VARIABLES
  file,        \* skaya.config.json: ENOENT, blank, malformed, or a JSON document
  dirs,        \* component folders on disk: <<project folder, component folder>>
  folders,     \* project folders on disk
  now,         \* the clock new Date() reads; it ticks when an invocation starts
  concurrent,  \* whether a second CLI invocation may run beside the first
  aiRuns,      \* whether the operator may answer "Use AI" with yes in this run
  proc,        \* each CLI invocation: its position and its local values
  gen,         \* the pipeline run of Part II: its inputs, position and local values
  requests,    \* the requests made to the AI provider, in the order they were issued
  written,     \* the files the pipeline run wrote, in writing order
  naming       \* the run of Part III: a create, a registry lookup or a replacement

storeVars == <<file, dirs, folders, now, concurrent, aiRuns, proc>>
genVars == <<gen, requests, written>>
nameVars == <<naming>>

IdleProc ==
  [pc |-> "idle", kind |-> "none", name |-> "none", template |-> "",
   folder |-> "none", ai |-> FALSE, imports |-> None, existing |-> None,
   base |-> EmptyConfig, snap |-> EmptyConfig, cfg |-> EmptyConfig,
   newImports |-> <<>>, oldImports |-> <<>>, round |-> 0, outcome |-> "none"]

\* A document an earlier release of the tool left behind: its saveProjectConfig
\* wrote projects without a components map, its saveProjectComponentConfig
\* wrote components without imports and usedBy.
LegacyConfig ==
  [pt \in ProjectTypes |->
     IF pt = "backend"
     THEN Some([name |-> "backendSkayaProject", template |-> "custom", createdAt |-> 0,
                components |-> None])
     ELSE Some([name |-> "app", template |-> "custom", createdAt |-> 0,
                components |->
                  Some([n \in Names |->
                          IF n = "Icon"
                          THEN Some([source |-> "template",
                                     files |-> CreatedFiles("app", "Icon"),
                                     componentType |-> "component", savedAt |-> 0,
                                     updatedAt |-> None, aiPrompt |-> None,
                                     imports |-> None, usedBy |-> None])
                          ELSE None])])]

\* A project the tool set up earlier: createProject("app"), then create Button,
\* create Icon, create Card importing Icon.
SavedComponent(folder, name, imports, usedBy) ==
  [source |-> "template", files |-> CreatedFiles(folder, name),
   componentType |-> "component", savedAt |-> 0, updatedAt |-> Some(0),
   aiPrompt |-> None, imports |-> Some(imports), usedBy |-> Some(usedBy)]

PopulatedConfig ==
  [pt \in ProjectTypes |->
     IF pt = "backend" THEN None
     ELSE Some([name |-> "app", template |-> "skaya-react-ts", createdAt |-> 0,
                components |->
                  Some([n \in Names |->
                          IF n = "Card" THEN Some(SavedComponent("app", n, <<"Icon">>, <<>>))
                          ELSE IF n = "Icon" THEN Some(SavedComponent("app", n, <<>>, <<"Card">>))
                          ELSE Some(SavedComponent("app", n, <<>>, <<>>))])])]

StoreInit ==
  /\ now = 0
  /\ proc = [p \in Procs |-> IdleProc]
  /\ \/ /\ file \in {[kind |-> k, doc |-> EmptyConfig] : k \in {"ENOENT", "blank"}}
        /\ dirs = {}
        /\ folders = {}
     \/ \* a configuration file that was damaged after a component had been created
        /\ file = [kind |-> "malformed", doc |-> EmptyConfig]
        /\ dirs = {<<DefaultProjectName("frontend"), "Icon">>}
        /\ folders = {DefaultProjectName("frontend")}
     \/ /\ file = JsonFile(LegacyConfig)
        /\ dirs = {<<"app", "Icon">>}
        /\ folders = {"app"}
     \/ /\ file = JsonFile(PopulatedConfig)
        /\ dirs = {<<"app", n>> : n \in Names}
        /\ folders = {"app"}

\* getDefaultFolderForComponentType: the frontend project's name, or the default.
ProjectFolder(config) ==
  IF Has(config["frontend"]) THEN The(config["frontend"]).name
  ELSE DefaultProjectName("frontend")

\* scanExistingComponents: the component folders under the project's components path.
Scan(folder) == {n \in Names : <<folder, n>> \in dirs}

\* One invocation after the other; or, in a concurrent run, two invocations of
\* which the second starts before the first has exited.
MayStart(p) ==
  /\ proc[p].pc = "idle"
  /\ now < MaxOps
  /\ IF concurrent
     THEN now = p - 1 /\ (p = 2 => proc[1].pc # "idle")
     ELSE p = 1

\* --- createProject (frontend): make the folder, clone, saveProjectConfig ---
StartCreateProject(p, folder, template) ==
  /\ MayStart(p)
  /\ folder \notin folders
  /\ folders' = folders \cup {folder}
  /\ now' = now + 1
  /\ proc' = [proc EXCEPT ![p] =
       [IdleProc EXCEPT !.pc = "proj_read", !.kind = "init", !.folder = folder,
                        !.template = template]]
  /\ UNCHANGED <<file, dirs, concurrent, aiRuns, genVars, nameVars>>

ProjectRead(p) ==
  /\ proc[p].pc = "proj_read"
  /\ IF ProjectConfigReadThrows(file)
     THEN proc' = [proc EXCEPT ![p].pc = "done", ![p].outcome = "ConfigReadError"]
     ELSE LET config == readConfig(file)
          IN proc' = [proc EXCEPT
               ![p].pc = "proj_write",
               ![p].base = config,
               ![p].snap = config,
               ![p].cfg = saveProjectConfig(config, "frontend", proc[p].folder,
                                            proc[p].template, now)]
  /\ UNCHANGED <<file, dirs, folders, now, concurrent, aiRuns, genVars, nameVars>>

ProjectWrite(p) ==
  /\ proc[p].pc = "proj_write"
  /\ file' = JsonFile(proc[p].cfg)
  /\ proc' = [proc EXCEPT ![p].pc = "done", ![p].outcome = "ok"]
  /\ UNCHANGED <<dirs, folders, now, concurrent, aiRuns, genVars, nameVars>>

\* --- createFile / updateFile ---
StartCreateFile(p, name) ==
  /\ MayStart(p)
  /\ now' = now + 1
  /\ proc' = [proc EXCEPT ![p] =
       [IdleProc EXCEPT !.pc = "gen", !.kind = "create", !.name = name,
                        !.folder = ProjectFolder(readConfig(file))]]
  /\ UNCHANGED <<file, dirs, folders, concurrent, aiRuns, genVars, nameVars>>

\* The update command offers the scanned components; updateFile then checks
\* that the component's folder exists.
StartUpdateFile(p, name) ==
  /\ MayStart(p)
  /\ name \in Scan(ProjectFolder(readConfig(file)))
  /\ now' = now + 1
  /\ proc' = [proc EXCEPT ![p] =
       [IdleProc EXCEPT !.pc = "get", !.kind = "update", !.name = name,
                        !.folder = ProjectFolder(readConfig(file))]]
  /\ UNCHANGED <<file, dirs, folders, concurrent, aiRuns, genVars, nameVars>>

\* updateFile: "Load existing config first"
GetConfig(p) ==
  /\ proc[p].pc = "get"
  /\ LET e == getProjectComponentConfig(readConfig(file), "frontend", proc[p].name)
     IN IF Has(e)
        THEN proc' = [proc EXCEPT ![p].pc = "gen", ![p].existing = e]
        ELSE proc' = [proc EXCEPT ![p].pc = "done", ![p].outcome = "ConfigurationNotFound"]
  /\ UNCHANGED <<file, dirs, folders, now, concurrent, aiRuns, genVars, nameVars>>

\* What generateFromTemplate hands back as `imports`: the components picked
\* from the scan, or nothing at all when none was picked (the callers guard
\* every use with `imports && ...` / `imports || ...`).
ImportChoices(folder) ==
  {None} \cup {Some(s) : s \in Selections(Scan(folder), MaxImports)}

\* generateFromTemplate succeeded: the component's files are on disk.
Generate(p, ai, imports) ==
  /\ proc[p].pc = "gen"
  /\ ai => aiRuns
  /\ imports \in ImportChoices(proc[p].folder)
  /\ dirs' = dirs \cup {<<proc[p].folder, proc[p].name>>}
  /\ folders' = folders \cup {proc[p].folder}
  /\ proc' = [proc EXCEPT ![p].pc = "save_read", ![p].ai = ai, ![p].imports = imports]
  /\ UNCHANGED <<file, now, concurrent, aiRuns, genVars, nameVars>>

\* generateFromTemplate threw before writing (no template directory, no API key).
GenerateFails(p) ==
  /\ proc[p].pc = "gen"
  /\ proc' = [proc EXCEPT ![p].pc = "done", ![p].outcome = "GenerationError"]
  /\ UNCHANGED <<file, dirs, folders, now, concurrent, aiRuns, genVars, nameVars>>

Details(keys, source, files, aiPrompt, imports, usedBy) ==
  [keys |-> keys,
   e |-> [source |-> source, files |-> files, aiPrompt |-> aiPrompt,
          imports |-> imports, usedBy |-> usedBy]]

\* createFile's componentDetails.
CreateDetails(pr) ==
  Details({"source", "files"}
            \cup (IF pr.ai THEN {"aiPrompt"} ELSE {})
            \cup (IF Has(pr.imports) THEN {"imports"} ELSE {}),
          IF pr.ai THEN "ai" ELSE "template",
          CreatedFiles(pr.folder, pr.name),
          IF pr.ai THEN Some("description") ELSE None,
          pr.imports,
          None)

\* An updateData that keeps the stored imports whatever was selected.
StaleUpdateDetails(pr) ==
  LET ex == The(pr.existing)
  IN Details({"source", "files", "imports"}
               \cup (IF pr.ai \/ Has(ex.aiPrompt) THEN {"aiPrompt"} ELSE {})
               \cup (IF Has(ex.usedBy) THEN {"usedBy"} ELSE {}),
             ex.source,
             CreatedFiles(pr.folder, pr.name),
             IF pr.ai THEN Some("description") ELSE ex.aiPrompt,
             ex.imports,
             ex.usedBy)

\* updateFile's updateData: {...existingConfig, files, aiPrompt?, imports, updatedAt}.
UpdateDetails(pr) ==
  LET ex == The(pr.existing)
  IN Details({"source", "files", "imports"}
               \cup (IF pr.ai \/ Has(ex.aiPrompt) THEN {"aiPrompt"} ELSE {})
               \cup (IF Has(ex.usedBy) THEN {"usedBy"} ELSE {}),
             ex.source,
             CreatedFiles(pr.folder, pr.name),
             IF pr.ai THEN Some("description") ELSE ex.aiPrompt,
             IF Has(pr.imports) THEN pr.imports ELSE ex.imports,
             ex.usedBy)

ComponentDetails(pr) == IF pr.kind = "update" THEN UpdateDetails(pr) ELSE CreateDetails(pr)

\* saveProjectComponentConfig up to its writeFile: read, merge in memory.
SaveRead(p) ==
  /\ proc[p].pc = "save_read"
  /\ LET config == readConfig(file)
         details == ComponentDetails(proc[p])
         processedImports == IF "imports" \in details.keys THEN details.e.imports ELSE None
     IN proc' = [proc EXCEPT
          ![p].pc = "save_write",
          ![p].base = config,
          ![p].snap = config,
          ![p].cfg = saveProjectComponentConfig(config, "frontend", "component",
                                                proc[p].name, details, now),
          ![p].newImports = OrEmpty(processedImports),
          ![p].oldImports = OrEmpty(ExistingImports(config, "frontend", proc[p].name))]
  /\ UNCHANGED <<file, dirs, folders, now, concurrent, aiRuns, genVars, nameVars>>

\* updateFile's own call: imports && !areImportsEqual(imports, existingConfig.imports)
SecondReconcile(pr) ==
  /\ pr.kind = "update"
  /\ Has(pr.imports)
  /\ ~areImportsEqual(The(pr.imports), OrEmpty(The(pr.existing).imports))

AfterReconcile(pr) ==
  IF pr.round < 2 /\ SecondReconcile(pr)
  THEN [pr EXCEPT !.pc = "ref_read", !.round = 2,
                  !.newImports = The(pr.imports),
                  !.oldImports = OrEmpty(The(pr.existing).imports)]
  ELSE [pr EXCEPT !.pc = "done", !.outcome = "ok"]

\* A save that writes the file and never goes on to updateComponentReferences.
SaveWriteWithoutReconcile(p) ==
  /\ proc[p].pc = "save_write"
  /\ file' = JsonFile(proc[p].cfg)
  /\ proc' = [proc EXCEPT ![p].pc = "done", ![p].outcome = "ok"]
  /\ UNCHANGED <<dirs, folders, now, concurrent, aiRuns, genVars, nameVars>>

\* saveProjectComponentConfig's writeFile, and its decision to reconcile:
\* processedImports?.length || existingComponentConfig.imports?.length
SaveWrite(p) ==
  /\ proc[p].pc = "save_write"
  /\ file' = JsonFile(proc[p].cfg)
  /\ proc' = [proc EXCEPT ![p] =
       IF Len(proc[p].newImports) > 0 \/ Len(proc[p].oldImports) > 0
       THEN [proc[p] EXCEPT !.pc = "ref_read", !.round = 1]
       ELSE AfterReconcile([proc[p] EXCEPT !.round = 1])]
  /\ UNCHANGED <<dirs, folders, now, concurrent, aiRuns, genVars, nameVars>>

\* updateComponentReferences up to its writeFile.
RefRead(p) ==
  /\ proc[p].pc = "ref_read"
  /\ LET config == readConfig(file)
     IN IF HasComponents(config, "frontend")
        THEN proc' = [proc EXCEPT
               ![p].pc = "ref_write",
               ![p].snap = config,
               ![p].cfg = updateComponentReferences(config, "frontend", proc[p].name,
                                                    proc[p].newImports, proc[p].oldImports)]
        ELSE proc' = [proc EXCEPT ![p].pc = "ref_done", ![p].snap = config, ![p].cfg = config]
  /\ UNCHANGED <<file, dirs, folders, now, concurrent, aiRuns, genVars, nameVars>>

\* A write that re-applies the reference update to the document the file
\* holds at the moment of writing.
RefWriteOnCurrent(p) ==
  /\ proc[p].pc = "ref_write"
  /\ file' = JsonFile(IF HasComponents(readConfig(file), "frontend")
                      THEN updateComponentReferences(readConfig(file), "frontend",
                             proc[p].name, proc[p].newImports, proc[p].oldImports)
                      ELSE proc[p].cfg)
  /\ proc' = [proc EXCEPT ![p].pc = "ref_done"]
  /\ UNCHANGED <<dirs, folders, now, concurrent, aiRuns, genVars, nameVars>>

RefWrite(p) ==
  /\ proc[p].pc = "ref_write"
  /\ file' = JsonFile(proc[p].cfg)
  /\ proc' = [proc EXCEPT ![p].pc = "ref_done"]
  /\ UNCHANGED <<dirs, folders, now, concurrent, aiRuns, genVars, nameVars>>

RefReturn(p) ==
  /\ proc[p].pc = "ref_done"
  /\ proc' = [proc EXCEPT ![p] = AfterReconcile(proc[p])]
  /\ UNCHANGED <<file, dirs, folders, now, concurrent, aiRuns, genVars, nameVars>>

\* The invocation exits.
Return(p) ==
  /\ proc[p].pc = "done"
  /\ proc' = [proc EXCEPT ![p] = IdleProc]
  /\ UNCHANGED <<file, dirs, folders, now, concurrent, aiRuns, genVars, nameVars>>

StoreNext ==
  \E p \in Procs :
    \/ \E f \in Folders, t \in Templates : StartCreateProject(p, f, t)
    \/ ProjectRead(p)
    \/ ProjectWrite(p)
    \/ \E n \in Names : StartCreateFile(p, n)
    \/ \E n \in Names : StartUpdateFile(p, n)
    \/ GetConfig(p)
    \/ \E ai \in BOOLEAN, imports \in {None} \cup {Some(s) : s \in Selections(Names, MaxImports)} :
         Generate(p, ai, imports)
    \/ GenerateFails(p)
    \/ SaveRead(p)
    \/ SaveWrite(p)
    \/ RefRead(p)
    \/ RefWrite(p)
    \/ RefReturn(p)
    \/ Return(p)

(***************************************************************************)
(* Part II: one run of the generation pipeline.  generateFromTemplate      *)
(* (src/scripts/templateGenerator.ts) resolves the template files, asks    *)
(* whether to use AI, calls generateCodeWithAI, and writes the files.  The *)
(* repository holds two revisions of generateCodeWithAI (the one of        *)
(* src/ai/geminiCodeGenerator.ts finds the component file by name, the     *)
(* earlier one by extension) and two of the writing loop (the one inside   *)
(* generateFromTemplate, and TemplateService.saveTemplateFiles); a run is  *)
(* made with one of each.  Every request to the AI provider is two steps:  *)
(* it is issued, and it completes.                                         *)
(***************************************************************************)
MaxMissing == 1

ComponentTypes == {"component", "page", "route", "api"}
ApiTypes == {"redux", "without-redux"}
Suffixes == {"tsx", "stories.tsx", "test.tsx", "css", "ts", "test.ts", "Slice.tsx"}

\* A file name is a stem and what follows its first dot.  The stem is either
\* the component type's word (a bundled template: component.test.tsx) or the
\* component's own name (a generated file: Button.test.tsx).
TypeStem == "type"
NameStem == "name"
FileNamed(stem, suffix) == [stem |-> stem, suffix |-> suffix]

\* File contents; no content at all ('' or undefined) is None.
TemplateText(suffix) == Some([origin |-> "template", suffix |-> suffix, names |-> "placeholders"])
DiskText(suffix) == Some([origin |-> "disk", suffix |-> suffix, names |-> "substituted"])
AiText(suffix) == Some([origin |-> "ai", suffix |-> suffix, names |-> "generated"])

getBaseTemplateFiles(componentType) ==
  CASE componentType = "component" -> <<"tsx", "stories.tsx", "test.tsx", "css">>
    [] componentType = "page" -> <<"tsx", "test.tsx", "css">>
    [] componentType = "route" -> <<"ts", "test.ts">>
    [] componentType = "api" -> <<"Slice.tsx">>

\* getTemplateFilesForType: a template file that cannot be read gets content ''.
getTemplateFilesForType(componentType, missing) ==
  LET base == getBaseTemplateFiles(componentType)
  IN [i \in 1..Len(base) |->
        [originalFileName |-> FileNamed(TypeStem, base[i]),
         targetFileName |-> FileNamed(NameStem, base[i]),
         content |-> IF base[i] \in missing THEN None ELSE TemplateText(base[i])]]

\* readdir lists a component's folder in name order.
FolderOrder == <<"css", "stories.tsx", "test.ts", "test.tsx", "ts", "tsx">>

\* getFilesInFolder: the files of the component's folder, named as they are on disk.
getFilesInFolder(componentType) ==
  LET onDisk == SelectSeq(FolderOrder, LAMBDA s : s \in Range(getBaseTemplateFiles(componentType)))
  IN [i \in 1..Len(onDisk) |->
        [originalFileName |-> FileNamed(NameStem, onDisk[i]),
         targetFileName |-> FileNamed(NameStem, onDisk[i]),
         content |-> DiskText(onDisk[i])]]

\* path.extname without its dot.
extname(f) ==
  CASE f.suffix \in {"tsx", "stories.tsx", "test.tsx", "Slice.tsx"} -> "tsx"
    [] f.suffix \in {"ts", "test.ts"} -> "ts"
    [] f.suffix = "css" -> "css"

\* The position a file takes in geminiCodeGenerator's sort: the file named
\* `${fileName}.tsx`, then the style sheet, then the test, then the rest.
SortRank(fileTemplate) ==
  IF fileTemplate.originalFileName = FileNamed(NameStem, "tsx") THEN 0
  ELSE IF fileTemplate.originalFileName.suffix = "css" THEN 1
  ELSE IF fileTemplate.originalFileName.suffix \in {"test.tsx", "test.ts"} THEN 2
  ELSE 3

sortedTemplateFiles(templateFiles) ==
  SelectSeq(templateFiles, LAMBDA f : SortRank(f) = 0)
    \o SelectSeq(templateFiles, LAMBDA f : SortRank(f) = 1)
    \o SelectSeq(templateFiles, LAMBDA f : SortRank(f) = 2)
    \o SelectSeq(templateFiles, LAMBDA f : SortRank(f) = 3)

\* The files as generateCodeWithAI walks them.
WalkOrder(rule, templateFiles) ==
  IF rule = "name" THEN sortedTemplateFiles(templateFiles) ELSE templateFiles

\* Array.find's test for the main component file, in either revision.
IsComponentFile(rule, fileTemplate) ==
  IF rule = "name"
  THEN fileTemplate.originalFileName \in {FileNamed(NameStem, "tsx"), FileNamed(NameStem, "jsx")}
  ELSE extname(fileTemplate.originalFileName) \in {"tsx", "jsx"}

componentFile(rule, templateFiles) ==
  LET found == SelectSeq(WalkOrder(rule, templateFiles), LAMBDA f : IsComponentFile(rule, f))
  IN IF Len(found) = 0 THEN None ELSE Some(found[1])

\* The component file, then every other file in walking order.
GenerationOrder(rule, templateFiles) ==
  <<The(componentFile(rule, templateFiles))>>
    \o SelectSeq(WalkOrder(rule, templateFiles),
                 LAMBDA f : f # The(componentFile(rule, templateFiles)))

\* The fileType argument: everything after the first dot in the later
\* revision, the extension in the earlier one and for the component file.
FileType(rule, fileTemplate, isBody) ==
  IF rule = "name" /\ ~isBody THEN fileTemplate.originalFileName.suffix
  ELSE extname(fileTemplate.originalFileName)

\* A prompt that leaves the component content out of the style sheet's prompt.
PromptWithoutStyleContext(fileType, fileTemplate, componentContent) ==
  LET isTestFile == fileTemplate.originalFileName.suffix \in {"test.tsx", "test.ts"}
      isStoriesFile == fileTemplate.originalFileName.suffix = "stories.tsx"
      branch == IF isTestFile THEN "test"
                ELSE IF isStoriesFile THEN "stories"
                ELSE IF fileType = "tsx" THEN "tsx"
                ELSE IF fileType \in {"css", "scss"} THEN "style"
                ELSE "generic"
  IN [branch |-> branch,
      targetFileName |-> fileTemplate.targetFileName,
      originalContent |-> fileTemplate.content,
      componentContent |-> IF branch \in {"test", "stories"} THEN componentContent ELSE None]

\* getFileSpecificPrompts: the branch taken, and what the prompt's text embeds.
\* Only the test, stories and style prompts interpolate ${componentContent}.
getFileSpecificPrompts(fileType, fileTemplate, componentContent) ==
  LET isTestFile == fileTemplate.originalFileName.suffix \in {"test.tsx", "test.ts"}
      isStoriesFile == fileTemplate.originalFileName.suffix = "stories.tsx"
      branch == IF isTestFile THEN "test"
                ELSE IF isStoriesFile THEN "stories"
                ELSE IF fileType = "tsx" THEN "tsx"
                ELSE IF fileType \in {"css", "scss"} THEN "style"
                ELSE "generic"
  IN [branch |-> branch,
      targetFileName |-> fileTemplate.targetFileName,
      originalContent |-> fileTemplate.content,
      componentContent |-> IF branch \in {"test", "stories", "style"}
                           THEN componentContent ELSE None]

\* generateWithGemini: the provider's text, or '' when the call threw.
generateWithGemini(fileTemplate, answered) ==
  IF answered THEN AiText(fileTemplate.originalFileName.suffix) ELSE None

\* The replacements made on a file's content before it is written.
Substitute(content) == [content EXCEPT !.names = "substituted"]

\* No pipeline run is being followed.
GenOff ==
  /\ gen = [pc |-> "off"]
  /\ requests = <<>>
  /\ written = <<>>

GenInit ==
  /\ requests = <<>>
  /\ written = <<>>
  /\ \E componentType \in ComponentTypes,
        source \in {"templates", "folder"},
        rule \in {"name", "ext"},
        writer \in {"inline", "service"},
        dirExists \in BOOLEAN,
        apiKey \in BOOLEAN,
        missing \in SUBSET Suffixes,
        apiType \in ApiTypes \cup {"none"},
        storeInit \in BOOLEAN :
       \* getFilesInFolder and saveTemplateFiles belong to the later revision
       /\ source = "folder" => (rule = "name" /\ writer = "service" /\ dirExists /\ missing = {})
       \* createFile asks for the API type of an api component; the API branch
       \* belongs to generateFromTemplate's own writing loop
       /\ (componentType = "api") <=> (apiType \in ApiTypes)
       /\ componentType = "api" => (source = "templates" /\ writer = "inline")
       \* the Redux store is initialised from templates/<project>/api/redux
       /\ storeInit => (apiType = "redux" /\ dirExists)
       /\ missing \subseteq Range(getBaseTemplateFiles(componentType))
       /\ Cardinality(missing) <= MaxMissing
       /\ gen = [pc |-> IF componentType = "api" THEN "api" ELSE "start",
                 componentType |-> componentType, source |-> source,
                 rule |-> rule, writer |-> writer, dirExists |-> dirExists,
                 apiKey |-> apiKey, missing |-> missing, useAI |-> FALSE,
                 apiType |-> apiType, storeInit |-> storeInit, apiFiles |-> <<>>,
                 templateFiles |-> <<>>, order |-> <<>>, k |-> 0, body |-> None,
                 updated |-> <<>>, idx |-> 0, clock |-> 0, outcome |-> "none"]

GenFails(why) == gen' = [gen EXCEPT !.pc = "failed", !.outcome = why]

\* generateFromTemplate's API branch, which comes before the template
\* directory check: with Redux the store files are copied when they are not
\* there yet and their templates are, handleApiComponentType writes
\* apiEndpoints.ts, and the run goes on to the slice; without Redux the run
\* returns what handleApiComponentType wrote.
HandleApi ==
  /\ gen.pc = "api"
  /\ LET storeFiles == IF gen.storeInit
                       THEN <<"redux/store.tsx", "redux/storeProvider.tsx">>
                       ELSE <<>>
         apiFiles == storeFiles \o <<"apiEndpoints.ts">>
     IN gen' = IF gen.apiType = "redux"
               THEN [gen EXCEPT !.pc = "start", !.apiFiles = apiFiles]
               ELSE [gen EXCEPT !.pc = "done", !.outcome = "ok", !.apiFiles = apiFiles]
  /\ UNCHANGED <<requests, written, storeVars, nameVars>>

\* generateFromTemplate: the template directory check and the file resolution.
Resolve ==
  /\ gen.pc = "start"
  /\ IF gen.source = "templates" /\ ~gen.dirExists
     THEN GenFails("TemplateDirectoryNotFound")
     ELSE gen' = [gen EXCEPT
            !.pc = "ask",
            !.templateFiles = IF gen.source = "templates"
                              THEN getTemplateFilesForType(gen.componentType, gen.missing)
                              ELSE getFilesInFolder(gen.componentType)]
  /\ UNCHANGED <<requests, written, storeVars, nameVars>>

\* "Use AI to generate the component?"
ChooseMode(useAI) ==
  /\ gen.pc = "ask"
  /\ gen' = [gen EXCEPT !.useAI = useAI,
                        !.pc = IF useAI THEN "ai_start" ELSE "write",
                        !.idx = 1]
  /\ UNCHANGED <<requests, written, storeVars, nameVars>>

\* generateCodeWithAI up to its first request.
StartAI ==
  /\ gen.pc = "ai_start"
  /\ IF ~gen.apiKey THEN GenFails("MissingAPIKey")
     ELSE IF ~Has(componentFile(gen.rule, gen.templateFiles)) THEN GenFails("NoComponentFile")
     ELSE gen' = [gen EXCEPT !.pc = "issue", !.k = 1,
                             !.order = GenerationOrder(gen.rule, gen.templateFiles)]
  /\ UNCHANGED <<requests, written, storeVars, nameVars>>

\* model.generateContent(fullPrompt) is called for the k-th file.
IssueRequest ==
  /\ gen.pc = "issue"
  /\ LET fileTemplate == gen.order[gen.k]
         isBody == gen.k = 1
         prompt == getFileSpecificPrompts(FileType(gen.rule, fileTemplate, isBody), fileTemplate,
                                          IF isBody THEN None ELSE Some(gen.body))
     IN requests' = Append(requests,
          [file |-> fileTemplate.originalFileName, prompt |-> prompt,
           issuedAt |-> gen.clock, completedAt |-> None, response |-> None])
  /\ gen' = [gen EXCEPT !.pc = "await", !.clock = @ + 1]
  /\ UNCHANGED <<written, storeVars, nameVars>>

\* The call returns, or throws and generateWithGemini returns ''.
CompleteRequest(answered) ==
  /\ gen.pc = "await"
  /\ LET fileTemplate == gen.order[gen.k]
         response == generateWithGemini(fileTemplate, answered)
         updatedFiles == Append(gen.updated, [fileTemplate EXCEPT !.content = response])
     IN /\ requests' = [requests EXCEPT ![gen.k] =
                          [@ EXCEPT !.completedAt = Some(gen.clock), !.response = Some(response)]]
        /\ gen' = [gen EXCEPT
             !.clock = @ + 1,
             !.body = IF gen.k = 1 THEN response ELSE @,
             !.updated = updatedFiles,
             !.k = @ + 1,
             !.pc = IF gen.k = Len(gen.order) THEN "write" ELSE "issue",
             !.templateFiles = IF gen.k = Len(gen.order) THEN updatedFiles ELSE @]
  /\ UNCHANGED <<written, storeVars, nameVars>>

\* What the writing loop takes as the file's content: generateFromTemplate's
\* loop reads the template from disk when there is none, saveTemplateFiles
\* throws; None stands for the throw.
ContentToWrite(g, templateFile) ==
  IF Has(templateFile.content) THEN templateFile.content
  ELSE IF g.writer = "inline" /\ templateFile.originalFileName.stem = TypeStem
                              /\ templateFile.originalFileName.suffix \notin g.missing
       THEN TemplateText(templateFile.originalFileName.suffix)
       ELSE None

\* One turn of the writing loop: fs.outputFile(targetPath, content).
WriteFile ==
  /\ gen.pc = "write"
  /\ gen.idx <= Len(gen.templateFiles)
  /\ Has(ContentToWrite(gen, gen.templateFiles[gen.idx]))
  /\ written' = Append(written,
       [targetFileName |-> gen.templateFiles[gen.idx].targetFileName,
        content |-> Substitute(The(ContentToWrite(gen, gen.templateFiles[gen.idx])))])
  /\ gen' = [gen EXCEPT !.idx = @ + 1]
  /\ UNCHANGED <<requests, storeVars, nameVars>>

\* The loop throws: "Template file ... not found" / "Template file ... is empty."
WriteThrows ==
  /\ gen.pc = "write"
  /\ gen.idx <= Len(gen.templateFiles)
  /\ ~Has(ContentToWrite(gen, gen.templateFiles[gen.idx]))
  /\ GenFails(IF gen.writer = "inline" THEN "TemplateFileMissing" ELSE "TemplateFileEmpty")
  /\ UNCHANGED <<requests, written, storeVars, nameVars>>

\* return createdFiles
Finish ==
  /\ gen.pc = "write"
  /\ gen.idx > Len(gen.templateFiles)
  /\ gen' = [gen EXCEPT !.pc = "done", !.outcome = "ok"]
  /\ UNCHANGED <<requests, written, storeVars, nameVars>>

GenNext ==
  \/ HandleApi
  \/ Resolve
  \/ \E useAI \in BOOLEAN : ChooseMode(useAI)
  \/ StartAI
  \/ IssueRequest
  \/ \E answered \in BOOLEAN : CompleteRequest(answered)
  \/ WriteFile
  \/ WriteThrows
  \/ Finish

\* No CLI invocation is being followed.
StoreOff ==
  /\ file = [kind |-> "ENOENT", doc |-> EmptyConfig]
  /\ dirs = {}
  /\ folders = {}
  /\ now = 0
  /\ concurrent = FALSE
  /\ aiRuns = TRUE
  /\ proc = [p \in Procs |-> IdleProc]

(***************************************************************************)
(* Part III: names and text.  A string is the sequence of its characters,  *)
(* so that the replacements the resolver, generateFromTemplate, the        *)
(* writing loop and scanExistingComponents make on file names and file     *)
(* contents are computed as the code computes them.                        *)
(***************************************************************************)
LowerLetters ==
  <<"a", "b", "c", "d", "e", "f", "g", "h", "i", "j", "k", "l", "m",
    "n", "o", "p", "q", "r", "s", "t", "u", "v", "w", "x", "y", "z">>
UpperLetters ==
  <<"A", "B", "C", "D", "E", "F", "G", "H", "I", "J", "K", "L", "M",
    "N", "O", "P", "Q", "R", "S", "T", "U", "V", "W", "X", "Y", "Z">>
DigitChars == {"0", "1", "2", "3", "4", "5", "6", "7", "8", "9"}

\* String.prototype.toUpperCase / toLowerCase
toUpperCase(s) ==
  [i \in 1..Len(s) |->
     IF \E k \in 1..26 : LowerLetters[k] = s[i]
     THEN UpperLetters[CHOOSE k \in 1..26 : LowerLetters[k] = s[i]]
     ELSE s[i]]

toLowerCase(s) ==
  [i \in 1..Len(s) |->
     IF \E k \in 1..26 : UpperLetters[k] = s[i]
     THEN LowerLetters[CHOOSE k \in 1..26 : UpperLetters[k] = s[i]]
     ELSE s[i]]

\* A name kept as it was typed.
AsTyped(s) == s

\* s.charAt(0).toUpperCase() + s.slice(1).toLowerCase()
Capitalize(s) ==
  IF s = <<>> THEN <<>> ELSE toUpperCase(<<Head(s)>>) \o toLowerCase(Tail(s))

\* s.charAt(0).toUpperCase() + s.slice(1)
UpperFirst(s) ==
  IF s = <<>> THEN <<>> ELSE toUpperCase(<<Head(s)>>) \o Tail(s)

\* The pattern, a literal, matches s at index i (flag i: ignoring case).
MatchesAt(s, i, pattern, ignoreCase) ==
  /\ i >= 1
  /\ i + Len(pattern) - 1 <= Len(s)
  /\ LET m == SubSeq(s, i, i + Len(pattern) - 1)
     IN IF ignoreCase THEN toLowerCase(m) = toLowerCase(pattern) ELSE m = pattern

includes(s, pattern, ignoreCase) ==
  \E i \in 1..Len(s) : MatchesAt(s, i, pattern, ignoreCase)

endsWith(s, pattern) == MatchesAt(s, Len(s) - Len(pattern) + 1, pattern, FALSE)

\* s.replace(new RegExp(pattern, 'g' or 'gi'), replacement): every match,
\* from the left, none overlapping the one before it.
ReplaceAll(s, pattern, ignoreCase, replacement) ==
  LET RECURSIVE From(_)
      From(i) ==
        IF i > Len(s) THEN <<>>
        ELSE IF MatchesAt(s, i, pattern, ignoreCase)
             THEN replacement \o From(i + Len(pattern))
             ELSE <<s[i]>> \o From(i + 1)
  IN From(1)

\* \w and \b of a regular expression.
IsWordChar(c) ==
  \/ \E k \in 1..26 : c \in {LowerLetters[k], UpperLetters[k]}
  \/ c \in DigitChars
  \/ c = "_"

WordCharAt(s, i) == i >= 1 /\ i <= Len(s) /\ IsWordChar(s[i])
WordBoundary(s, i) == WordCharAt(s, i - 1) # WordCharAt(s, i)

\* The values of the component type enums, as characters.
TagStr ==
  [component |-> <<"c", "o", "m", "p", "o", "n", "e", "n", "t">>,
   page |-> <<"p", "a", "g", "e">>,
   api |-> <<"a", "p", "i">>,
   redux |-> <<"r", "e", "d", "u", "x">>,
   route |-> <<"r", "o", "u", "t", "e">>,
   controller |-> <<"c", "o", "n", "t", "r", "o", "l", "l", "e", "r">>]

\* The file-name pieces the registry, the writer and the scan spell out.
FileStr ==
  [Page |-> <<"P", "a", "g", "e">>,
   index |-> <<"i", "n", "d", "e", "x">>,
   tsx |-> <<".", "t", "s", "x">>,
   ts |-> <<".", "t", "s">>,
   jsx |-> <<".", "j", "s", "x">>,
   css |-> <<".", "c", "s", "s">>,
   stories_tsx |-> <<".", "s", "t", "o", "r", "i", "e", "s", ".", "t", "s", "x">>,
   test_tsx |-> <<".", "t", "e", "s", "t", ".", "t", "s", "x">>,
   test_ts |-> <<".", "t", "e", "s", "t", ".", "t", "s">>,
   Slice_tsx |-> <<"S", "l", "i", "c", "e", ".", "t", "s", "x">>,
   backendRequest_ts |-> <<"b", "a", "c", "k", "e", "n", "d", "R", "e", "q", "u", "e", "s", "t", ".", "t", "s">>,
   store_tsx |-> <<"r", "e", "d", "u", "x", "/", "s", "t", "o", "r", "e", ".", "t", "s", "x">>,
   storeProvider_tsx |-> <<"r", "e", "d", "u", "x", "/", "s", "t", "o", "r", "e", "P", "r", "o", "v", "i", "d", "e", "r", ".", "t", "s", "x">>]

\* The pieces of text the replacements look for.
TextStr ==
  [React |-> <<"R", "e", "a", "c", "t", ".">>,
   placeholder_lower |-> <<"{", "{", "c", "o", "m", "p", "o", "n", "e", "n", "t", "}", "}">>,
   placeholder_cap |-> <<"{", "{", "C", "o", "m", "p", "o", "n", "e", "n", "t", "}", "}">>,
   placeholder_upper |-> <<"{", "{", "C", "O", "M", "P", "O", "N", "E", "N", "T", "}", "}">>,
   storybook |-> <<"c", "o", "m", "p", "o", "n", "e", "n", "t", ":", " ", "C", "o", "m", "p", "o", "n", "e", "n", "t">>,
   storybook_head |-> <<"c", "o", "m", "p", "o", "n", "e", "n", "t", ":", " ">>]

\* Component names as they are typed.
NameStr ==
  [button |-> <<"b", "u", "t", "t", "o", "n">>,
   home |-> <<"h", "o", "m", "e">>,
   test |-> <<"t", "e", "s", "t">>,
   icon |-> <<"i", "c", "o", "n">>]

\* Every value of FrontendComponentType, BackendComponentType,
\* BlokchainComponentType and ApiType.
ComponentTypeTags ==
  {"component", "page", "api", "redux", "without-redux", "route", "controller",
   "middleware", "script", "contract", "library", "interface", "enum"}

\* The characters of the tags the registry knows.
TypeWord(componentType) ==
  CASE componentType = "component" -> TagStr.component
    [] componentType = "page" -> TagStr.page
    [] componentType = "api" -> TagStr.api
    [] componentType = "redux" -> TagStr.redux
    [] componentType = "route" -> TagStr.route
    [] componentType = "controller" -> TagStr.controller

\* TemplateService.getBaseTemplateFiles: the file names of a component type,
\* in order; None stands for the throw of the default branch.
getBaseTemplateFileNames(componentType) ==
  CASE componentType = "component" ->
         Some(<<TagStr.component \o FileStr.tsx, TagStr.component \o FileStr.stories_tsx,
                TagStr.component \o FileStr.test_tsx, TagStr.component \o FileStr.css>>)
    [] componentType = "page" ->
         Some(<<TagStr.page \o FileStr.tsx, TagStr.page \o FileStr.test_tsx, TagStr.page \o FileStr.css>>)
    [] componentType = "api" ->
         Some(<<TagStr.api \o FileStr.Slice_tsx, FileStr.backendRequest_ts>>)
    [] componentType = "redux" ->
         Some(<<FileStr.store_tsx, FileStr.storeProvider_tsx>>)
    [] componentType = "route" ->
         Some(<<TagStr.route \o FileStr.ts, TagStr.route \o FileStr.test_ts>>)
    [] componentType = "controller" ->
         Some(<<TagStr.controller \o FileStr.ts, TagStr.controller \o FileStr.test_ts>>)
    [] OTHER -> None

\* The generator module's own getBaseTemplateFiles: its copy of the lists.
generatorGetBaseTemplateFiles(componentType) ==
  CASE componentType = "component" ->
         Some(<<TagStr.component \o FileStr.tsx, TagStr.component \o FileStr.stories_tsx,
                TagStr.component \o FileStr.test_tsx, TagStr.component \o FileStr.css>>)
    [] componentType = "page" ->
         Some(<<TagStr.page \o FileStr.tsx, TagStr.page \o FileStr.test_tsx, TagStr.page \o FileStr.css>>)
    [] componentType = "api" ->
         Some(<<TagStr.api \o FileStr.Slice_tsx>>)
    [] componentType = "redux" ->
         Some(<<TagStr.redux \o FileStr.tsx,
                <<"s", "t", "o", "r", "e">> \o FileStr.tsx,
                <<"s", "t", "o", "r", "e", "P", "r", "o", "v", "i", "d", "e", "r">> \o FileStr.tsx>>)
    [] componentType = "route" ->
         Some(<<TagStr.route \o FileStr.ts, TagStr.route \o FileStr.test_ts>>)
    [] componentType = "controller" ->
         Some(<<TagStr.controller \o FileStr.ts, TagStr.controller \o FileStr.test_ts>>)
    [] OTHER -> None

\* A resolver that names every file after the component's body file.
targetBodyFileName(originalFileName, componentType, fileName) ==
  Capitalize(fileName) \o FileStr.tsx

\* file.replace(new RegExp(componentType, 'gi'), formattedFileName)
targetFileName(originalFileName, componentType, fileName) ==
  ReplaceAll(originalFileName, TypeWord(componentType), TRUE, Capitalize(fileName))

\* Sample contents of the bundled templates and of the provider's answers.
TemplateContent == TextStr.placeholder_cap \o <<" ">> \o TagStr.component
GeneratedContent == <<"x">>

\* getTemplateFilesForType, every template file being readable.
getTemplateFileNamesForType(fileName, componentType) ==
  LET baseFiles == The(getBaseTemplateFileNames(componentType))
  IN [i \in 1..Len(baseFiles) |->
        [originalFileName |-> baseFiles[i],
         targetFileName |-> targetFileName(baseFiles[i], componentType, fileName),
         content |-> TemplateContent]]

\* generateFromTemplate after generateCodeWithAI:
\* file.targetFileName.replace(new RegExp(fileName, 'gi'),
\*   match => match.charAt(0).toUpperCase() + match.slice(1).toLowerCase())
renameAfterAI(name, fileName) ==
  LET RECURSIVE From(_)
      From(i) ==
        IF i > Len(name) THEN <<>>
        ELSE IF MatchesAt(name, i, fileName, TRUE)
             THEN Capitalize(SubSeq(name, i, i + Len(fileName) - 1))
                    \o From(i + Len(fileName))
             ELSE <<name[i]>> \o From(i + 1)
  IN From(1)

\* The third replacement of the writing loop:
\* new RegExp(`(?<!React\\.)(\\b|_)${componentType}(?![:])(\\b|_)`, 'gi').
\* MatchEnd(i) is the index after the match that starts at i, 0 if none does.
ReplaceTypeWord(s, word, replacement) ==
  LET n == Len(word)
      TailEnd(k) ==
        IF k <= Len(s) /\ s[k] = ":" THEN 0
        ELSE IF WordBoundary(s, k) THEN k
        ELSE IF k <= Len(s) /\ s[k] = "_" THEN k + 1
        ELSE 0
      ViaBoundary(i) ==
        IF WordBoundary(s, i) /\ MatchesAt(s, i, word, TRUE) THEN TailEnd(i + n) ELSE 0
      ViaUnderscore(i) ==
        IF s[i] = "_" /\ MatchesAt(s, i + 1, word, TRUE) THEN TailEnd(i + 1 + n) ELSE 0
      MatchEnd(i) ==
        IF MatchesAt(s, i - Len(TextStr.React), TextStr.React, TRUE) THEN 0
        ELSE IF ViaBoundary(i) > 0 THEN ViaBoundary(i)
        ELSE ViaUnderscore(i)
      RECURSIVE From(_)
      From(i) ==
        IF i > Len(s) THEN <<>>
        ELSE IF MatchEnd(i) > 0 THEN replacement \o From(MatchEnd(i))
        ELSE <<s[i]>> \o From(i + 1)
  IN From(1)

\* Replacements that take `component` for the type word whatever the type is.
replaceNamesOfComponent(content, componentType, fileName) ==
  ReplaceTypeWord(content, TagStr.component, fileName)

\* The replacements the writing loop makes on a file's content.
replaceNames(content, componentType, fileName) ==
  LET c1 == ReplaceAll(content, TextStr.storybook, FALSE, TextStr.storybook_head \o fileName)
      c2 == ReplaceAll(c1, TextStr.placeholder_lower, FALSE, toLowerCase(fileName))
      c3 == ReplaceAll(c2, TextStr.placeholder_cap, FALSE, fileName)
      c4 == ReplaceAll(c3, TextStr.placeholder_upper, FALSE, toUpperCase(fileName))
  IN ReplaceTypeWord(c4, TypeWord(componentType), fileName)

\* The folder the writing loop puts the files in: pascalCaseName in
\* generateFromTemplate's loop, fileName in saveTemplateFiles, `Page` added
\* for a page.
targetDirName(writer, componentType, fileName) ==
  (IF writer = "inline" THEN Capitalize(fileName) ELSE fileName)
    \o (IF componentType = "page" THEN FileStr.Page ELSE <<>>)

\* The candidates of the scan in bin/utils/ProjectScanner.ts, which has no
\* fallback for a folder named <Name>Page.
possibleMainFilesWithoutPage(componentType, dir) ==
  LET baseFiles == The(getBaseTemplateFileNames(componentType))
  IN [i \in 1..Len(baseFiles) |->
        ReplaceAll(baseFiles[i], TypeWord(componentType), TRUE, dir)]
     \o <<dir \o FileStr.tsx, dir \o FileStr.jsx, UpperFirst(dir) \o FileStr.tsx, FileStr.index \o FileStr.tsx>>

\* A candidate list that tries the generic index files before the names
\* made from the folder's name.
possibleMainFilesIndexFirst(componentType, dir) ==
  <<FileStr.index \o FileStr.tsx, FileStr.index \o FileStr.ts>>
    \o possibleMainFilesWithoutPage(componentType, dir)

\* scanExistingComponents: the candidates for a folder's main file, in order.
possibleMainFiles(componentType, dir) ==
  LET baseFiles == The(getBaseTemplateFileNames(componentType))
  IN [i \in 1..Len(baseFiles) |->
        ReplaceAll(baseFiles[i], TypeWord(componentType), TRUE, dir)]
     \o <<dir \o FileStr.tsx, dir \o FileStr.ts, dir \o FileStr.jsx, UpperFirst(dir) \o FileStr.tsx>>
     \o (IF endsWith(toLowerCase(dir), TagStr.page)
         THEN <<SubSeq(dir, 1, Len(dir) - 4) \o FileStr.tsx>>
         ELSE <<>>)
     \o <<FileStr.index \o FileStr.tsx, FileStr.index \o FileStr.ts>>

\* path.basename
basename(name) ==
  IF \E i \in 1..Len(name) : name[i] = "/"
  THEN SubSeq(name, 1 + CHOOSE i \in 1..Len(name) :
                          name[i] = "/" /\ \A j \in (i + 1)..Len(name) : name[j] # "/",
              Len(name))
  ELSE name

\* possibleMainFiles.find(file => componentFiles.includes(file) || ...)
mainFile(componentType, dir, componentFiles) ==
  LET found == SelectSeq(possibleMainFiles(componentType, dir),
                         LAMBDA f : f \in componentFiles \/ basename(f) \in componentFiles)
  IN IF Len(found) = 0 THEN None ELSE Some(found[1])

\* --- one create run followed at the level of names and text ---
MaxNameLen == 2
MaxTokens == 2

\* The names typed on the command line: three words, and every word of up to
\* MaxNameLen letters over a small alphabet.
NameLetters == {"t", "c", "P"}
NameInputs ==
  {NameStr.button, NameStr.home, NameStr.test, NameStr.icon}
    \cup UNION {[1..k -> NameLetters] : k \in 1..MaxNameLen}

\* File contents built from the pieces the replacements look for.
ContentTokens ==
  {TextStr.placeholder_lower, TextStr.placeholder_cap, TextStr.placeholder_upper, TextStr.storybook,
   TagStr.component, TagStr.page, FileStr.Page, TextStr.React, <<"_">>, <<":">>, <<" ">>, <<"x">>}

RECURSIVE Flatten(_)
Flatten(pieces) ==
  IF pieces = <<>> THEN <<>> ELSE Head(pieces) \o Flatten(Tail(pieces))

Contents == {Flatten(ps) : ps \in UNION {[1..k -> ContentTokens] : k \in 0..MaxTokens}}

\* A component that is already in the folder.
ExistingComponent(componentType) ==
  LET tf == getTemplateFileNamesForType(Capitalize(NameStr.icon), componentType)
  IN [name |-> targetDirName("inline", componentType, NameStr.icon),
      files |-> {tf[i].targetFileName : i \in 1..Len(tf)}]

\* The sub-folders in which scanExistingComponents finds a main file.
componentsWithData(folder, componentType) ==
  {[name |-> d.name, main |-> The(mainFile(componentType, d.name, d.files))] :
     d \in {e \in The(folder) :
              e.name # TagStr.redux /\ Has(mainFile(componentType, e.name, e.files))}}

\* A scan whose fs.access is not inside a try: None stands for the rejection
\* that reaches the caller.
scanWithoutCatch(folder, componentType) ==
  IF ~Has(folder) THEN None ELSE Some(componentsWithData(folder, componentType))

\* scanExistingComponents: fs.access fails on a folder that does not exist and
\* the catch returns []; else the components found are returned.
scanExistingComponents(folder, componentType) ==
  IF ~Has(folder) THEN Some({}) ELSE Some(componentsWithData(folder, componentType))

\* What fs.readdir can list in the sub-folder `Button` or `button` of a
\* components folder: any of the canonical template name, the folder's name
\* in either case, a style file and the two index files.
FolderListings(componentType) ==
  SUBSET {TypeWord(componentType) \o FileStr.tsx,
          Capitalize(NameStr.button) \o FileStr.tsx,
          NameStr.button \o FileStr.tsx,
          Capitalize(NameStr.button) \o FileStr.css,
          FileStr.index \o FileStr.tsx,
          FileStr.index \o FileStr.ts}

NoNaming ==
  [pc |-> "off", kind |-> "none", raw |-> <<>>, fileName |-> <<>>,
   componentType |-> "component", useAI |-> FALSE, writer |-> "inline",
   folder |-> None, scanFailed |-> FALSE, importExisting |-> FALSE,
   dependencies |-> <<>>,
   templateFiles |-> <<>>, dir |-> <<>>, createdFiles |-> <<>>, overwritten |-> {},
   aiDescription |-> <<>>, entry |-> None, key |-> <<>>,
   scanned |-> {}, selected |-> <<>>, lookup |-> "none", lists |-> <<>>, content |-> <<>>, result |-> <<>>]

NamingOff == naming = NoNaming

\* `skaya create`, a registry lookup, the replacements on one content, or a
\* scan of a components folder that holds one sub-folder.
NamingInit ==
  \/ \E raw \in NameInputs, componentType \in {"component", "page"},
        useAI \in BOOLEAN, writer \in {"inline", "service"} :
     \E folder \in {None, Some({}), Some({ExistingComponent(componentType)})} :
       naming = [NoNaming EXCEPT !.pc = "cli", !.kind = "create", !.raw = raw,
                                 !.componentType = componentType, !.useAI = useAI,
                                 !.writer = writer, !.folder = folder]
  \/ \E componentType \in ComponentTypeTags :
       naming = [NoNaming EXCEPT !.pc = "lookup", !.kind = "filesFor",
                                 !.componentType = componentType]
  \/ \E componentType \in {"component", "page"},
        dir \in {NameStr.button, Capitalize(NameStr.button)} :
     \E componentFiles \in FolderListings(componentType) :
       naming = [NoNaming EXCEPT !.pc = "scan", !.kind = "scan",
                                 !.componentType = componentType, !.dir = dir,
                                 !.folder = Some({[name |-> dir, files |-> componentFiles]})]
  \/ \E content \in Contents, componentType \in {"component", "page"} :
       naming = [NoNaming EXCEPT !.pc = "text", !.kind = "replace",
                                 !.componentType = componentType,
                                 !.fileName = Capitalize(NameStr.button),
                                 !.content = content]

\* The create command: fileName = charAt(0).toUpperCase() + slice(1).toLowerCase()
ParseCommand ==
  /\ naming.pc = "cli"
  /\ naming' = [naming EXCEPT !.pc = "imports", !.fileName = Capitalize(naming.raw)]
  /\ UNCHANGED <<storeVars, genVars>>

\* The answers a checkbox prompt can give: the choices picked, each once.
CheckboxAnswers(choices) ==
  {s \in UNION {[1..k -> choices] : k \in 0..Cardinality(choices)} :
     \A i, j \in 1..Len(s) : s[i] = s[j] => i = j}

\* handleComponentImport for one required import type: when the operator
\* picks the type the folder is scanned, and the components found, if any,
\* are offered.  The call of the scan is not inside a try: an error it threw
\* would end the run.  scanFailed: the scan logged that it could not read
\* the folder.
handleComponentImport(pickType, selectedDependencies) ==
  /\ naming.pc = "imports"
  /\ LET existingComponentsForType ==
           scanExistingComponents(naming.folder, naming.componentType)
     IN IF ~pickType
        THEN /\ selectedDependencies = <<>>
             /\ naming' = [naming EXCEPT !.pc = "resolve"]
        ELSE IF ~Has(existingComponentsForType)
        THEN /\ selectedDependencies = <<>>
             /\ naming' = [naming EXCEPT !.pc = "failed",
                                         !.scanFailed = ~Has(naming.folder)]
        ELSE IF Cardinality(The(existingComponentsForType)) > 0
        THEN /\ selectedDependencies
                  \in CheckboxAnswers({c.name : c \in The(existingComponentsForType)})
             /\ naming' = [naming EXCEPT
                  !.pc = "resolve",
                  !.dependencies = selectedDependencies,
                  !.importExisting = Len(selectedDependencies) > 0]
        ELSE /\ selectedDependencies = <<>>
             /\ naming' = [naming EXCEPT !.pc = "resolve",
                                         !.scanFailed = ~Has(naming.folder)]
  /\ UNCHANGED <<storeVars, genVars>>

\* getTemplateFilesForType
ResolveNames ==
  /\ naming.pc = "resolve"
  /\ naming' = [naming EXCEPT
       !.pc = "content",
       !.templateFiles = getTemplateFileNamesForType(naming.fileName, naming.componentType)]
  /\ UNCHANGED <<storeVars, genVars>>

\* What the operator can type at the prompt for the AI description, whose
\* default is the empty text.
AiDescriptions == {<<>>, <<"d">>}

\* Template mode keeps the files as resolved and the description empty; AI
\* mode asks for the description, takes the provider's content and rewrites
\* each targetFileName.
GenerateContent(description) ==
  /\ naming.pc = "content"
  /\ description \in AiDescriptions
  /\ ~naming.useAI => description = <<>>
  /\ naming' = [naming EXCEPT
       !.pc = "write",
       !.aiDescription = description,
       !.templateFiles =
          IF naming.useAI
          THEN [i \in 1..Len(naming.templateFiles) |->
                  [naming.templateFiles[i] EXCEPT
                     !.content = GeneratedContent,
                     !.targetFileName = renameAfterAI(@, naming.fileName)]]
          ELSE @]
  /\ UNCHANGED <<storeVars, genVars>>

\* The writing loop: path.join(targetFolder, <folder>, templateFile.targetFileName);
\* fs.outputFile replaces a file that is already there.
WriteNamedFiles ==
  /\ naming.pc = "write"
  /\ LET dir == targetDirName(naming.writer, naming.componentType, naming.fileName)
         name == IF naming.writer = "inline" THEN Capitalize(naming.fileName)
                 ELSE naming.fileName
         tf == naming.templateFiles
         createdFiles == [i \in 1..Len(tf) |->
                            [dir |-> dir, name |-> tf[i].targetFileName,
                             content |-> replaceNames(tf[i].content, naming.componentType, name)]]
         before == IF Has(naming.folder) THEN The(naming.folder) ELSE {}
         filesBefore == UNION {e.files : e \in {d \in before : d.name = dir}}
         filesWritten == {tf[i].targetFileName : i \in 1..Len(tf)}
     IN naming' = [naming EXCEPT
          !.pc = "save",
          !.dir = dir,
          !.createdFiles = createdFiles,
          !.overwritten = filesBefore \cap filesWritten,
          !.folder = Some({e \in before : e.name # dir}
                            \cup {[name |-> dir, files |-> filesBefore \cup filesWritten]})]
  /\ UNCHANGED <<storeVars, genVars>>

\* What generateFromTemplate hands back as imports: the components picked,
\* or nothing at all.
ImportsReturned(dependencies) ==
  IF dependencies = <<>> THEN {None, Some(<<>>)} ELSE {Some(dependencies)}

\* createFile: saveProjectComponentConfig(projectType, componentType, fileName,
\* {source, files: createdFiles, aiPrompt?, imports?}) on a project without
\* an entry for the component.
SaveNamedComponent(imports) ==
  /\ naming.pc = "save"
  /\ imports \in ImportsReturned(naming.dependencies)
  /\ LET details ==
           Details({"source", "files"}
                     \cup (IF naming.aiDescription # <<>> THEN {"aiPrompt"} ELSE {})
                     \cup (IF Has(imports) THEN {"imports"} ELSE {}),
                   IF naming.aiDescription # <<>> THEN "ai" ELSE "template",
                   [i \in 1..Len(naming.createdFiles) |->
                      [dir |-> naming.createdFiles[i].dir,
                       name |-> naming.createdFiles[i].name]],
                   IF naming.aiDescription # <<>> THEN Some("description") ELSE None,
                   imports,
                   None)
     IN naming' = [naming EXCEPT
          !.pc = "scan",
          !.key = naming.fileName,
          !.entry = Some(MergeComponent(NewComponentConfig(naming.componentType, 0),
                                        details, naming.componentType, 0))]
  /\ UNCHANGED <<storeVars, genVars>>

\* The update command lists the folder with scanExistingComponents.
ScanWritten ==
  /\ naming.pc = "scan"
  /\ naming' = [naming EXCEPT
       !.pc = IF naming.kind = "create" THEN "update" ELSE "end",
       !.scanned = The(scanExistingComponents(naming.folder, naming.componentType))]
  /\ UNCHANGED <<storeVars, genVars>>

\* The update command after its scan: it throws when nothing was found, else
\* the operator selects one of the names listed and updateFile looks for the
\* folder of that name and then for the configuration stored under it.
UpdateSelected(selectedComponent) ==
  /\ naming.pc = "update"
  /\ IF naming.scanned = {}
     THEN /\ selectedComponent = <<>>
          /\ naming' = [naming EXCEPT !.pc = "end", !.lookup = "NoExistingComponents"]
     ELSE /\ selectedComponent \in {c.name : c \in naming.scanned}
          /\ naming' = [naming EXCEPT
               !.pc = "end",
               !.selected = selectedComponent,
               !.lookup =
                 IF ~\E d \in The(naming.folder) : d.name = selectedComponent
                 THEN "ComponentNotFound"
                 ELSE IF Has(naming.entry) /\ selectedComponent = naming.key
                 THEN "found"
                 ELSE "ConfigurationNotFound"]
  /\ UNCHANGED <<storeVars, genVars>>

\* One call of the registry; it is called twice.
CallRegistry ==
  /\ naming.pc = "lookup"
  /\ naming' = [naming EXCEPT
       !.lists = Append(@, getBaseTemplateFileNames(naming.componentType)),
       !.pc = IF Len(naming.lists) = 1 THEN "copy" ELSE "lookup"]
  /\ UNCHANGED <<storeVars, genVars>>

\* The same type is looked up in the generator module's copy.
CallGeneratorCopy ==
  /\ naming.pc = "copy"
  /\ naming' = [naming EXCEPT
       !.pc = "end",
       !.result = generatorGetBaseTemplateFiles(naming.componentType)]
  /\ UNCHANGED <<storeVars, genVars>>

\* The writing loop's replacements applied to one content.
ApplyReplacements ==
  /\ naming.pc = "text"
  /\ naming' = [naming EXCEPT
       !.pc = "end",
       !.result = replaceNames(naming.content, naming.componentType, naming.fileName)]
  /\ UNCHANGED <<storeVars, genVars>>

NamingNext ==
  \/ ParseCommand
  \/ \E pickType \in BOOLEAN,
        selectedDependencies \in CheckboxAnswers({ExistingComponent(t).name : t \in {"component", "page"}}) :
       handleComponentImport(pickType, selectedDependencies)
  \/ ResolveNames
  \/ \E description \in AiDescriptions : GenerateContent(description)
  \/ WriteNamedFiles
  \/ \E imports \in ImportsReturned(naming.dependencies) : SaveNamedComponent(imports)
  \/ ScanWritten
  \/ \E selectedComponent \in {c.name : c \in naming.scanned} \cup {<<>>} :
       UpdateSelected(selectedComponent)
  \/ CallRegistry
  \/ CallGeneratorCopy
  \/ ApplyReplacements

\* ------------------------------------------------------------ specifications
vars == <<file, dirs, folders, now, concurrent, aiRuns, proc, gen, requests, written, naming>>

\* One CLI invocation at a time, template mode.
Init == StoreInit /\ concurrent = FALSE /\ aiRuns = FALSE /\ GenOff /\ NamingOff
Next == StoreNext
Spec == Init /\ [][Next]_vars

\* One CLI invocation at a time, template or AI mode.
InitAI == StoreInit /\ concurrent = FALSE /\ aiRuns = TRUE /\ GenOff /\ NamingOff
SpecAI == InitAI /\ [][Next]_vars

\* Two CLI invocations against the same project directory.
InitConc == StoreInit /\ concurrent = TRUE /\ aiRuns = FALSE /\ GenOff /\ NamingOff
SpecConc == InitConc /\ [][Next]_vars

\* One run of the generation pipeline.
InitGen == GenInit /\ StoreOff /\ NamingOff
NextGen == GenNext
SpecGen == InitGen /\ [][NextGen]_vars

\* One run followed at the level of names and text.
InitNames == NamingInit /\ StoreOff /\ GenOff
NextNames == NamingNext
SpecNames == InitNames /\ [][NextNames]_vars

\* ================================================================ properties
\* The document the store file holds, as readConfig would return it.
Doc == readConfig(file)

\* The frontend components map of a document (all absent when there is none).
ComponentsOf(config) ==
  IF HasComponents(config, "frontend") THEN Components(config, "frontend")
  ELSE EmptyComponents

ImportsOf(comps, c) == IF Has(comps[c]) THEN Range(OrEmpty(The(comps[c]).imports)) ELSE {}
UsedByOf(comps, x) == IF Has(comps[x]) THEN Range(OrEmpty(The(comps[x]).usedBy)) ELSE {}
Importers(comps, x) == {c \in Names : x \in ImportsOf(comps, c)}
Occurrences(s, x) == Cardinality({i \in 1..Len(s) : s[i] = x})

\* The invocation ran createFile or updateFile to its end without an error.
Completed(p) ==
  /\ proc[p].pc = "done"
  /\ proc[p].outcome = "ok"
  /\ proc[p].kind \in {"create", "update"}

\* C1: after every completed create or update of a component, usedBy(X) of
\* every component X of the components map is exactly the set of components
\* whose imports name X.
UsedByMatchesImports ==
  \A p \in Procs :
    Completed(p) =>
      \A x \in Names :
        Has(ComponentsOf(Doc)[x]) =>
          UsedByOf(ComponentsOf(Doc), x) = Importers(ComponentsOf(Doc), x)

\* A request the provider failed: generateWithGemini returned ''.
FailedRequests == {i \in 1..Len(requests) : requests[i].response = Some(None)}

\* The pipeline run was made in AI mode and has ended.
AIRunEnded == gen.pc \in {"done", "failed"} /\ gen.useAI

\* C2: in AI mode, when the generation call of any one file fails, the
\* content used for every file of the component is its template content after
\* substitution, and no generated content is kept.
AIFallbackIsAllOrNothing ==
  (gen.pc = "done" /\ gen.useAI /\ FailedRequests # {}) =>
    /\ Len(written) = Len(gen.templateFiles)
    /\ \A i \in 1..Len(written) :
         written[i].content = Substitute(The(TemplateText(written[i].targetFileName.suffix)))

\* The run ended well although a call failed, and the component's folder
\* holds generated files beside a template file.
MixedAIAndTemplateWrite ==
  /\ gen.pc = "done"
  /\ gen.useAI
  /\ Len(written) = 4
  /\ \E i \in FailedRequests : requests[i].file.suffix = "css"
  /\ \E i \in 1..Len(written) : written[i].content.origin = "template"
  /\ Cardinality({i \in 1..Len(written) : written[i].content.origin = "ai"}) = 3

\* The component's primary body file: <name>.tsx.
IsPrimary(fileName) == fileName.suffix \in {"tsx", "Slice.tsx"}

NoPartialWrite ==
  (AIRunEnded /\ FailedRequests # {}) =>
    Len(written) \in {0, Len(gen.templateFiles)}

\* The writing loop threw on the file whose call had failed, after it had
\* written the files before it.
PartialWriteAfterFailedCall ==
  /\ gen.pc = "failed"
  /\ gen.useAI
  /\ FailedRequests # {}
  /\ Len(written) > 0
  /\ Len(written) < Len(gen.templateFiles)

\* C5: after updateComponentReferences(P, C, newImports, oldImports), for every
\* component D that had an entry: C is in D.usedBy if newImports names D, C is
\* not in D.usedBy if only oldImports names D, and C's membership in D.usedBy
\* is as it was if neither list names D.
ReconcilePostcondition ==
  \A p \in Procs :
    proc[p].pc = "ref_done" =>
      LET before == ComponentsOf(proc[p].snap)
          after == ComponentsOf(Doc)
          C == proc[p].name
          new == Range(proc[p].newImports)
          old == Range(proc[p].oldImports)
      IN \A D \in Names :
           Has(before[D]) =>
             /\ D \in new => C \in UsedByOf(after, D)
             /\ D \in old \ new => C \notin UsedByOf(after, D)
             /\ D \notin old \cup new =>
                  (C \in UsedByOf(after, D)) = (C \in UsedByOf(before, D))

\* A reconcile has just taken Card out of Icon.usedBy and put it into
\* Button.usedBy, and left it out of Card.usedBy.
ReconcileMovedReference ==
  \E p \in Procs :
    /\ proc[p].pc = "ref_done"
    /\ proc[p].name = "Card"
    /\ proc[p].oldImports = <<"Icon">>
    /\ proc[p].newImports = <<"Button">>
    /\ "Card" \in UsedByOf(ComponentsOf(proc[p].snap), "Icon")
    /\ "Card" \notin UsedByOf(ComponentsOf(Doc), "Icon")
    /\ "Card" \in UsedByOf(ComponentsOf(Doc), "Button")
    /\ "Card" \notin UsedByOf(ComponentsOf(Doc), "Card")

RecreatedWithoutBackReference ==
  \E p \in Procs :
    /\ Completed(p)
    /\ proc[p].kind = "create"
    /\ proc[p].name = "Icon"
    /\ Has(ComponentsOf(Doc)["Icon"])
    /\ "Icon" \in ImportsOf(ComponentsOf(Doc), "Button")
    /\ "Button" \notin UsedByOf(ComponentsOf(Doc), "Icon")

\* updateFile ran to its end on a component that had no imports, and the
\* operator selected dependencies for it.
UpdateAddedImports(p) ==
  /\ Completed(p)
  /\ proc[p].kind = "update"
  /\ OrEmpty(The(proc[p].existing).imports) = <<>>
  /\ Has(proc[p].imports)

SameButUsedBy(a, b) == Has(a) /\ Has(b) /\ [The(a) EXCEPT !.usedBy = None] = [The(b) EXCEPT !.usedBy = None]

\* What a component save may change of the document it read.
ComponentSaveFrame(before, after, C, touched) ==
  /\ \A pt \in ProjectTypes \ {"frontend"} : after[pt] = before[pt]
  /\ Has(before["frontend"]) =>
       /\ The(after["frontend"]).name = The(before["frontend"]).name
       /\ The(after["frontend"]).template = The(before["frontend"]).template
       /\ The(after["frontend"]).createdAt = The(before["frontend"]).createdAt
  /\ \A D \in Names \ {C} :
       IF D \in touched /\ Has(ComponentsOf(before)[D])
       THEN SameButUsedBy(ComponentsOf(after)[D], ComponentsOf(before)[D])
       ELSE ComponentsOf(after)[D] = ComponentsOf(before)[D]

\* What a project save may change of the document it read.
ProjectSaveFrame(before, after) ==
  /\ \A pt \in ProjectTypes \ {"frontend"} : after[pt] = before[pt]
  /\ HasComponents(after, "frontend")
  /\ ComponentsOf(after) = ComponentsOf(before)

\* C8: a component save, with the reconcile it triggers, changes only the
\* component's own entry and the usedBy of the components its old or new
\* imports name; a project save changes only that project's name, template
\* and createdAt; every other entry is as it was read.
WritesPreserveUnrelated ==
  \A p \in Procs :
    (proc[p].pc = "done" /\ proc[p].outcome = "ok") =>
      IF proc[p].kind = "init"
      THEN ProjectSaveFrame(proc[p].base, Doc)
      ELSE ComponentSaveFrame(proc[p].base, Doc, proc[p].name,
                              Range(proc[p].newImports) \cup Range(proc[p].oldImports))

\* A project save over a document that already holds components and another
\* project type.
ProjectSavedOverComponents ==
  \E p \in Procs :
    /\ proc[p].pc = "done"
    /\ proc[p].outcome = "ok"
    /\ proc[p].kind = "init"
    /\ Has(ComponentsOf(proc[p].base)["Icon"])
    /\ Has(ComponentsOf(Doc)["Icon"])
    /\ The(Doc["frontend"]).name # The(proc[p].base["frontend"]).name

\* C10: no store operation fails because the configuration file is absent or
\* holds malformed JSON.
ReadFailuresDegradeToEmpty ==
  \A p \in Procs : proc[p].outcome # "ConfigReadError"

\* createProject met the damaged file and stopped with "Error reading config file".
ProjectSaveFailedOnDamage ==
  \E p \in Procs :
    /\ proc[p].pc = "done"
    /\ proc[p].kind = "init"
    /\ proc[p].outcome = "ConfigReadError"
    /\ file.kind = "malformed"

Writing(p) == proc[p].pc \in {"proj_write", "save_write", "ref_write"}

\* C9: the store takes no lock: every write puts the writer's whole in-memory
\* document, built from the writer's own earlier read, in place of whatever the
\* file holds by then, so of two concurrent invocations the last writer's
\* document stands and the other's change can be missing from it.
WritesReplaceWholeDocument ==
  [][file' # file =>
       \E p \in Procs :
         /\ Writing(p)
         /\ proc'[p].pc # proc[p].pc
         /\ file' = [kind |-> "json", doc |-> proc[p].cfg]]_vars

\* Two concurrent createFile invocations both ended without an error, the
\* document is the second one's write, and the first one's entry is not in it.
LostUpdate ==
  \E p, q \in Procs :
    /\ p # q
    /\ Completed(p) /\ proc[p].kind = "create"
    /\ Completed(q) /\ proc[q].kind = "create"
    /\ proc[p].name # proc[q].name
    /\ Doc = proc[q].cfg
    /\ Has(ComponentsOf(Doc)[proc[q].name])
    /\ ~Has(ComponentsOf(Doc)[proc[p].name])

\* C11: a generation call that fails for one file (the provider threw, or
\* returned nothing) never aborts the run: a run in AI mode in which a call
\* failed still ends well, with every file of the component written.
FailedCallNeverAborts ==
  (AIRunEnded /\ FailedRequests # {}) =>
    /\ gen.pc = "done"
    /\ Len(written) = Len(gen.templateFiles)

\* The call for the component file failed, and saveTemplateFiles threw on its
\* empty content before it had written anything.
RunAbortedOnFailedBodyCall ==
  /\ gen.pc = "failed"
  /\ gen.outcome = "TemplateFileEmpty"
  /\ gen.useAI
  /\ 1 \in FailedRequests
  /\ written = <<>>

\* The writing loop stands before a file that has no content.
AtEmptyFile ==
  /\ gen.pc = "write"
  /\ gen.idx <= Len(gen.templateFiles)
  /\ ~Has(gen.templateFiles[gen.idx].content)

\* C12: the writing loop skips a file whose content is empty or undefined: it
\* writes nothing for it, raises no error, and goes on to the next file; what
\* it has written is exactly what it reports.
WriterSkipsEmptyFiles ==
  [][AtEmptyFile =>
       /\ gen'.pc = "write"
       /\ gen'.idx = gen.idx + 1
       /\ written' = written]_vars

\* In template mode a template file could not be read, its content was '',
\* and saveTemplateFiles threw on it instead of passing over it.
WriterThrewOnEmptyTemplate ==
  /\ gen.pc = "failed"
  /\ gen.outcome = "TemplateFileEmpty"
  /\ ~gen.useAI
  /\ gen.missing # {}
  /\ gen.idx <= Len(gen.templateFiles)
  /\ ~Has(gen.templateFiles[gen.idx].content)

\* A create run has written its files.
NamedFilesWritten == naming.kind = "create" /\ naming.pc \in {"save", "scan", "update", "end"}

\* C13: the name the writer gives a file on disk is the targetFileName the
\* resolver computed for the component name, the component type and the
\* file's original name; the writing stage has no naming rule of its own.
WrittenNamesAreResolverNames ==
  NamedFilesWritten =>
    \A i \in 1..Len(naming.createdFiles) :
      naming.createdFiles[i].name
        = targetFileName(naming.templateFiles[i].originalFileName,
                         naming.componentType, naming.fileName)

\* In AI mode the component `test` got the file Test.Test.tsx where the
\* resolver had computed Test.test.tsx.
NameRewrittenAfterAI ==
  /\ NamedFilesWritten
  /\ naming.useAI
  /\ naming.raw = NameStr.test
  /\ naming.componentType = "component"
  /\ targetFileName(TagStr.component \o FileStr.test_tsx, "component", naming.fileName)
       = <<"T", "e", "s", "t", ".", "t", "e", "s", "t", ".", "t", "s", "x">>
  /\ naming.createdFiles[3].name
       = <<"T", "e", "s", "t", ".", "T", "e", "s", "t", ".", "t", "s", "x">>

\* C14: after a component or page is written in template mode, the scan of
\* its folder lists it under its folder name, <Name> or <Name>Page, and takes
\* its primary body file <Name>.tsx as the main file.
WrittenComponentIsScanned ==
  (naming.kind = "create" /\ naming.pc = "end" /\ ~naming.useAI) =>
    /\ naming.dir = naming.fileName
                      \o (IF naming.componentType = "page" THEN FileStr.Page ELSE <<>>)
    /\ naming.createdFiles[1].name = naming.fileName \o FileStr.tsx
    /\ [name |-> naming.dir, main |-> naming.fileName \o FileStr.tsx] \in naming.scanned

\* The page `home`, written beside another page, is listed as HomePage with
\* the main file Home.tsx.
PageFoundByScan ==
  /\ naming.kind = "create"
  /\ naming.pc = "end"
  /\ ~naming.useAI
  /\ naming.raw = NameStr.home
  /\ naming.componentType = "page"
  /\ Cardinality(naming.scanned) = 2
  /\ [name |-> <<"H", "o", "m", "e", "P", "a", "g", "e">>,
      main |-> <<"H", "o", "m", "e", ".", "t", "s", "x">>] \in naming.scanned

\* `skaya create component --filename button` in template mode, nothing
\* selected for import, after createFile has saved the entry.
ButtonScenario ==
  /\ naming.kind = "create"
  /\ naming.pc \in {"scan", "update", "end"}
  /\ naming.raw = NameStr.button
  /\ naming.componentType = "component"
  /\ ~naming.useAI
  /\ naming.dependencies = <<>>

Str_Button == <<"B", "u", "t", "t", "o", "n">>

\* C15: creating the component `button` in template mode with no
\* dependencies writes exactly the four files Button.tsx, Button.stories.tsx,
\* Button.test.tsx and Button.css, all under the folder Button, and saves an
\* entry with source "template", four files and no imports.
ButtonCreatedFromTemplate ==
  ButtonScenario =>
    /\ [i \in 1..Len(naming.createdFiles) |-> naming.createdFiles[i].name]
         = <<Str_Button \o FileStr.tsx, Str_Button \o FileStr.stories_tsx,
             Str_Button \o FileStr.test_tsx, Str_Button \o FileStr.css>>
    /\ \A i \in 1..Len(naming.createdFiles) : naming.createdFiles[i].dir = Str_Button
    /\ \E d \in The(naming.folder) :
         /\ d.name = Str_Button
         /\ Cardinality(d.files) = 4
    /\ Has(naming.entry)
    /\ The(naming.entry).source = "template"
    /\ Len(The(naming.entry).files) = 4
    /\ OrEmpty(The(naming.entry).imports) = <<>>

\* The run for `button` has ended, its entry saved with the file
\* Button/Button.tsx first.
ButtonSaved ==
  /\ ButtonScenario
  /\ naming.pc = "end"
  /\ Has(naming.entry)
  /\ The(naming.entry).files[1] = [dir |-> Str_Button, name |-> Str_Button \o FileStr.tsx]

\* C16: for every component type the registry returns a non-empty ordered
\* list of file names, and a second call with the same type returns the
\* same list.
RegistryTotalAndStable ==
  (naming.kind = "filesFor" /\ naming.pc = "end") =>
    /\ Has(naming.lists[1])
    /\ Len(The(naming.lists[1])) > 0
    /\ \A i \in 1..Len(The(naming.lists[1])) : Len(The(naming.lists[1])[i]) > 0
    /\ naming.lists[2] = naming.lists[1]

\* Both calls for BackendComponentType.MIDDLEWARE ended in the throw of the
\* default branch: no list was returned.
RegistryThrewForMiddleware ==
  /\ naming.kind = "filesFor"
  /\ naming.pc = "end"
  /\ naming.componentType = "middleware"
  /\ naming.lists = <<None, None>>

\* The replacements have been applied to a content.
Replaced == naming.kind = "replace" /\ naming.pc = "end"

\* The content holds none of {{component}}, {{Component}}, {{COMPONENT}}.
NoPlaceholder ==
  /\ ~includes(naming.content, TextStr.placeholder_lower, FALSE)
  /\ ~includes(naming.content, TextStr.placeholder_cap, FALSE)
  /\ ~includes(naming.content, TextStr.placeholder_upper, FALSE)

\* The content does not hold the component-type keyword, in any case.
NoTypeKeyword == ~includes(naming.content, TypeWord(naming.componentType), TRUE)

\* As the specification states it: content without a placeholder and
\* without the component-type keyword is returned unchanged.
PlainContentUnchanged ==
  (Replaced /\ NoPlaceholder /\ NoTypeKeyword) => naming.result = naming.content

\* C19: content that holds no placeholder, no occurrence of the
\* component-type keyword in any case, and no occurrence of the literal
\* `component: Component`, is returned unchanged by the replacements.
PlainContentWithoutStorybookUnchanged ==
  (/\ Replaced
   /\ NoPlaceholder
   /\ NoTypeKeyword
   /\ ~includes(naming.content, TextStr.storybook, FALSE))
    => naming.result = naming.content

\* The replacements for a page left the content `componentReact.` as it was.
PlainContentKept ==
  /\ Replaced
  /\ naming.componentType = "page"
  /\ naming.content = TagStr.component \o TextStr.React
  /\ naming.result = naming.content

\* C18: when the folder to be scanned for existing components does not
\* exist, the scan returns an empty result instead of raising, the
\* dependency selection ends with importExisting false and nothing
\* selected, and the run goes on to write the files and save the entry.
ScanOfMissingFolderDegrades ==
  (naming.kind = "create" /\ naming.scanFailed) =>
    /\ scanExistingComponents(None, naming.componentType) = Some({})
    /\ naming.pc \in {"resolve", "content", "write", "save", "scan", "update", "end"}
    /\ ~naming.importExisting
    /\ naming.dependencies = <<>>
    /\ naming.pc \in {"save", "scan", "update", "end"} => Len(naming.createdFiles) > 0
    /\ naming.pc \in {"scan", "update", "end"} => Has(naming.entry)

\* The scan found no folder, and the run still ended with its files written
\* and its entry saved without imports.
CreatedAfterFailedScan ==
  /\ naming.kind = "create"
  /\ naming.scanFailed
  /\ naming.pc = "end"
  /\ Len(naming.createdFiles) > 0
  /\ Has(naming.entry)
  /\ OrEmpty(The(naming.entry).imports) = <<>>

\* Invocation p takes the step of saveProjectComponentConfig that writes the
\* file and decides whether to reconcile.
SaveDecides(p) == proc[p].pc = "save_write" /\ proc'[p].pc # "save_write"

\* Import lists in which no name occurs twice, in any order.
NameLists ==
  {s \in UNION {[1..k -> Names] : k \in 0..Cardinality(Names)} :
     \A i, j \in 1..Len(s) : s[i] = s[j] => i = j}

MissingTemplateDirFailsFirst ==
  (gen.pc \notin {"off", "api", "start"} /\ gen.source = "templates" /\ ~gen.dirExists) =>
    /\ gen.pc = "failed"
    /\ gen.outcome = "TemplateDirectoryNotFound"
    /\ written = <<>>
    /\ gen.apiFiles = <<>>

\* An api component with Redux: the run failed on the missing template
\* directory after handleApiComponentType had written apiEndpoints.ts.
EndpointsWrittenBeforeDirCheck ==
  /\ gen.pc = "failed"
  /\ gen.outcome = "TemplateDirectoryNotFound"
  /\ gen.componentType = "api"
  /\ gen.apiType = "redux"
  /\ ~gen.dirExists
  /\ gen.apiFiles = <<"apiEndpoints.ts">>

\* Invocation p takes the step of saveProjectComponentConfig that reads the
\* file and merges the component's entry in memory.
SaveMerges(p) == proc[p].pc = "save_read" /\ proc'[p].pc = "save_write"

\* C21: a create or an update never writes the component's own usedBy: the
\* usedBy its save stores for the component is the usedBy the document held
\* when the save read it, even when another component's reconcile changed it
\* after the operation first read the component's configuration.
OwnUsedByNotWritten ==
  [][\A p \in Procs :
       (SaveMerges(p) /\ Has(ComponentsOf(Doc)[proc[p].name])) =>
         The(ComponentsOf(proc'[p].cfg)[proc'[p].name]).usedBy
           = The(ComponentsOf(Doc)[proc[p].name]).usedBy]_vars

\* An update is about to write a usedBy for its component that differs from
\* the one the file holds: the file names an importer that the update's
\* document, built from the configuration it loaded first, leaves out.
StaleUsedByAboutToBeWritten ==
  \E p \in Procs :
    /\ proc[p].kind = "update"
    /\ proc[p].pc = "save_write"
    /\ Has(ComponentsOf(Doc)[proc[p].name])
    /\ proc[p].snap = Doc
    /\ UsedByOf(ComponentsOf(proc[p].cfg), proc[p].name)
         # UsedByOf(ComponentsOf(Doc), proc[p].name)

\* C22: a project's components map only grows: an entry that is in the
\* configuration document is still in it after any step of a create, an
\* update, a reconcile or a project initialisation.
ComponentsMapOnlyGrows ==
  [][\A n \in Names :
       Has(ComponentsOf(Doc)[n]) => Has(ComponentsOf(Doc')[n])]_vars

\* A project was initialised again over a document that held components,
\* and the components are still in it.
ReinitialisedWithComponents ==
  \E p \in Procs :
    /\ proc[p].kind = "init"
    /\ proc[p].pc = "done"
    /\ proc[p].outcome = "ok"
    /\ Has(ComponentsOf(proc[p].base)["Icon"])
    /\ The(Doc["frontend"]).name = proc[p].folder
    /\ Has(ComponentsOf(Doc)["Icon"])

\* C23: creating a component whose target path is already on disk raises a
\* component-already-exists error and writes over none of the files there.
CreateRefusesExistingPath ==
  (naming.kind = "create" /\ naming.pc \in {"save", "scan", "update", "end"}) =>
    naming.overwritten = {}

\* The component `icon` was created in a folder that held Icon already: the
\* run ended with its entry saved and the four files of Icon written over.
ExistingComponentOverwritten ==
  /\ naming.kind = "create"
  /\ naming.pc = "end"
  /\ naming.raw = NameStr.icon
  /\ naming.componentType = "component"
  /\ Has(naming.entry)
  /\ Cardinality(naming.overwritten) = 4
  /\ Capitalize(NameStr.icon) \o FileStr.tsx \in naming.overwritten

\* The names in a list of files are pairwise distinct.
DistinctNames(names) ==
  \A i, j \in 1..Len(names) : names[i] = names[j] => i = j

\* C24: for every component type the registry knows and every base name,
\* the target names computed for the files of one component are pairwise
\* distinct; and a run writes each of them exactly once, so that no file of
\* the component overwrites another.
TargetPathsDistinctAndWrittenOnce ==
  /\ (naming.kind = "filesFor" /\ naming.pc = "end" /\ Has(naming.lists[1])) =>
       \A fileName \in NameInputs :
         LET tf == getTemplateFileNamesForType(Capitalize(fileName), naming.componentType)
         IN DistinctNames([i \in 1..Len(tf) |-> tf[i].targetFileName])
  /\ (naming.kind = "create" /\ naming.pc \in {"content", "write"}) =>
       DistinctNames([i \in 1..Len(naming.templateFiles) |->
                        naming.templateFiles[i].targetFileName])
  /\ NamedFilesWritten =>
       /\ Len(naming.createdFiles) = Len(naming.templateFiles)
       /\ DistinctNames([i \in 1..Len(naming.createdFiles) |->
                           [dir |-> naming.createdFiles[i].dir,
                            name |-> naming.createdFiles[i].name]])

\* The AI-mode run for `test` has written four files under four names.
FourDistinctFilesWritten ==
  /\ NamedFilesWritten
  /\ naming.pc = "end"
  /\ naming.useAI
  /\ naming.raw = NameStr.test
  /\ Len(naming.createdFiles) = 4
  /\ Cardinality({naming.createdFiles[i].name : i \in 1..4}) = 4

\* The sub-folder of a scan run, and the main file the scan selected in it.
ScannedFolder == CHOOSE d \in The(naming.folder) : d.name = naming.dir
SelectedMain == {c.main : c \in {s \in naming.scanned : s.name = naming.dir}}
ScanEnded == naming.kind = "scan" /\ naming.pc = "end"

\* The names made from the folder's name: the template file names with the
\* type word replaced by it, then the folder's name with .tsx, .ts, .jsx and
\* with its first letter in upper case.
FolderNameCandidates ==
  LET baseFiles == The(getBaseTemplateFileNames(naming.componentType))
  IN {ReplaceAll(baseFiles[i], TypeWord(naming.componentType), TRUE, naming.dir) :
        i \in 1..Len(baseFiles)}
     \cup {naming.dir \o FileStr.tsx, naming.dir \o FileStr.ts, naming.dir \o FileStr.jsx,
           UpperFirst(naming.dir) \o FileStr.tsx}

GeneratorCopyAgreesWithRegistry ==
  (naming.kind = "filesFor" /\ naming.pc = "end") =>
    naming.result = naming.lists[1]

\* For the type api the registry returned apiSlice.tsx and backendRequest.ts
\* and the generator's copy returned apiSlice.tsx alone.
GeneratorCopyLacksBackendRequest ==
  /\ naming.kind = "filesFor"
  /\ naming.pc = "end"
  /\ naming.componentType = "api"
  /\ naming.lists[1] = Some(<<TagStr.api \o FileStr.Slice_tsx, FileStr.backendRequest_ts>>)
  /\ naming.result = Some(<<TagStr.api \o FileStr.Slice_tsx>>)

\* generateCodeWithAI has returned: every request of the run has completed.
AIReturned ==
  /\ gen.pc # "off"
  /\ gen.useAI
  /\ Len(gen.order) > 0
  /\ Len(gen.updated) = Len(gen.order)

\* C27: AI-mode generation returns exactly one entry for each input template
\* file, with the file's originalFileName and targetFileName unchanged and
\* its content populated, for the bundled template originals and for the
\* files of an existing component alike.
AIReturnsEveryFilePopulated ==
  /\ (gen.pc \in {"issue", "await"}) =>
       /\ Len(gen.order) = Len(gen.templateFiles)
       /\ Range(gen.order) = Range(gen.templateFiles)
  /\ (gen.pc = "failed" /\ gen.useAI /\ gen.apiKey) => gen.outcome # "NoComponentFile"
  /\ AIReturned =>
       \A i \in 1..Len(gen.order) :
         /\ gen.updated[i].originalFileName = gen.order[i].originalFileName
         /\ gen.updated[i].targetFileName = gen.order[i].targetFileName
         /\ Has(gen.updated[i].content)

\* generateCodeWithAI returned the files of an existing component, one entry
\* for each, and the entry of a file whose request had failed has content ''.
AIReturnedAnEmptyFile ==
  /\ AIReturned
  /\ gen.pc = "write"
  /\ gen.source = "folder"
  /\ \E i \in 1..Len(gen.updated) :
       /\ gen.updated[i].originalFileName = gen.order[i].originalFileName
       /\ ~Has(gen.updated[i].content)
       /\ Has(gen.order[i].content)

\* Invocation p ran createFile to its end on a component that had an entry,
\* and passed no imports field to the save.
ResavedWithoutImports(p) ==
  /\ Completed(p)
  /\ proc[p].kind = "create"
  /\ ~Has(proc[p].imports)
  /\ Has(ComponentsOf(proc[p].base)[proc[p].name])

\* C28: saving an existing component's configuration without an imports
\* field leaves the component's stored imports unchanged, and leaves it in
\* the usedBy of every component it imports.
SaveWithoutImportsKeepsReferences ==
  \A p \in Procs :
    ResavedWithoutImports(p) =>
      /\ The(ComponentsOf(Doc)[proc[p].name]).imports
           = The(ComponentsOf(proc[p].base)[proc[p].name]).imports
      /\ \A D \in ImportsOf(ComponentsOf(proc[p].base), proc[p].name) :
           (proc[p].name \in UsedByOf(ComponentsOf(Doc), D))
             <=> (proc[p].name \in UsedByOf(ComponentsOf(proc[p].base), D))

\* A component that imports another was created again with no imports field:
\* its entry still names the import, and it is no longer in the import's
\* usedBy.
BackReferenceLostOnResave ==
  \E p \in Procs :
    /\ ResavedWithoutImports(p)
    /\ \E D \in Names :
         /\ D \in ImportsOf(ComponentsOf(Doc), proc[p].name)
         /\ proc[p].name \in UsedByOf(ComponentsOf(proc[p].base), D)
         /\ proc[p].name \notin UsedByOf(ComponentsOf(Doc), D)

\* The update command selected the component that the create run had written.
CreatedComponentSelected ==
  /\ naming.kind = "create"
  /\ naming.pc = "end"
  /\ naming.selected = naming.dir

\* C29: for every component type, page included, the name the update command
\* obtains from scanExistingComponents for a component that the create
\* command made is the key under which its ComponentConfig was stored, and
\* updateFile finds the configuration.
CreatedComponentCanBeUpdated ==
  CreatedComponentSelected =>
    /\ naming.selected = naming.key
    /\ naming.lookup = "found"

\* The page `home` was created and stored under Home; the update command
\* listed it as HomePage, and updateFile found no configuration of that name.
CreatedPageNotFoundByUpdate ==
  /\ CreatedComponentSelected
  /\ naming.raw = NameStr.home
  /\ naming.componentType = "page"
  /\ naming.key = Capitalize(NameStr.home)
  /\ naming.selected = Capitalize(NameStr.home) \o FileStr.Page
  /\ naming.lookup = "ConfigurationNotFound"

\* C30: the ComponentConfig that the create operation saves has source "ai"
\* if and only if AI mode was chosen for the run, and "template" otherwise.
SourceTellsAIMode ==
  (naming.kind = "create" /\ Has(naming.entry)) =>
    /\ The(naming.entry).source = (IF naming.useAI THEN "ai" ELSE "template")

\* AI mode was chosen and the description left empty: the files written hold
\* the provider's content and the entry saved has source "template".
AIGeneratedSavedAsTemplate ==
  /\ naming.kind = "create"
  /\ naming.pc = "end"
  /\ naming.useAI
  /\ naming.aiDescription = <<>>
  /\ Has(naming.entry)
  /\ The(naming.entry).source = "template"
  /\ \A i \in 1..Len(naming.createdFiles) :
       naming.createdFiles[i].content
         = replaceNames(GeneratedContent, naming.componentType, naming.fileName)
====
